---- MODULE Spec2Model ----
(***************************************************************************)
(* Sentinel: the collector's report ingress (POST /api/report), the        *)
(* consensus aggregator (AgentP2PService) and the agent's monitoring       *)
(* cycle (SentinelAgent).                                                  *)
(*                                                                         *)
(* The collector runs on one JavaScript event loop: the code between two   *)
(* awaits runs without interruption, and at every await the handlers of    *)
(* other requests (and the timers) may run.  One action below is one such  *)
(* run-to-the-next-await segment.  A segment that resumes after a storage  *)
(* call applies the effect of that call first; the arguments of the call   *)
(* are the ones evaluated when the call was issued (kept in loc).          *)
(*                                                                         *)
(* Time is counted in units of the sweep period (5 minutes).               *)
(***************************************************************************)
EXTENDS Integers, Sequences, FiniteSets, TLC

\* ---- bounds ------------------------------------------------------------
MaxReq == 2          \* report requests in one behaviour
MaxInFlight == 2     \* report requests being handled at the same time
MaxTime == 3         \* sweep periods that elapse
MaxThreshold == 2    \* largest AGENT_CONSENSUS_THRESHOLD tried
MaxBurst == 3        \* report requests in one burst (SpecBurst)

\* ---- program constants -------------------------------------------------
MaxAge == 2          \* 10 minutes, in sweep periods of 5 minutes

Req == 1..(IF MaxBurst > MaxReq THEN MaxBurst ELSE MaxReq)
Agents == {"a1", "a2", "a3", "a4", "a5"}
Validators == {"v1", "v2", "v3"}

\* the agents and validators tables of the storage layer: agent a4 and
\* validator v3 are inactive, a5 is the agent registered for v3
AgentTable ==
  [a \in Agents |->
     [isActive |-> a # "a4", apiKey |-> "key",
      validator |-> IF a = "a3" THEN "v2" ELSE IF a = "a5" THEN "v3" ELSE "v1"]]
ValidatorTable ==
  [v \in Validators |-> [isActive |-> v # "v3", userId |-> "u1"]]

ReportStatus == {"HEALTHY", "UNHEALTHY", "CONSENSUS_REACHED", "CONSENSUS_FAILED"}
allowedStatuses == ReportStatus

\* request bodies that the agents of the active validators send
Bodies ==
  {b \in [agentId : Agents, agentApiKey : {"key"}, validatorId : Validators,
          status : {"HEALTHY", "UNHEALTHY"}] :
     /\ b.validatorId = AgentTable[b.agentId].validator
     /\ AgentTable[b.agentId].isActive
     /\ ValidatorTable[b.validatorId].isActive}

\* request bodies of any client: a field may be missing (""), the status may
\* be no ReportStatus or one only the aggregator writes, the agent unknown
\* ("ax") or inactive, the key wrong, the validator another one or inactive;
\* one defect alone or two together
WellFormed ==
  [agentId |-> "a1", agentApiKey |-> "key", validatorId |-> "v1",
   status |-> "UNHEALTHY"]
AnyBodies ==
  {WellFormed, [WellFormed EXCEPT !.status = "HEALTHY"]}
  \cup {[WellFormed EXCEPT !.agentId = a, !.validatorId = v] :
          a \in {"", "ax", "a4", "a5"}, v \in {"v1", "v3"}}
  \cup {[WellFormed EXCEPT !.agentApiKey = k, !.validatorId = v] :
          k \in {"", "key", "bad"}, v \in {"", "v1", "v2"}}
  \cup {[WellFormed EXCEPT !.status = st, !.agentId = a] :
          st \in {"", "DEGRADED", "CONSENSUS_REACHED", "CONSENSUS_FAILED"},
          a \in {"a1", "ax"}}

NoBody == [agentId |-> "", agentApiKey |-> "", validatorId |-> "", status |-> ""]
NoRow == [agentId |-> "", validatorId |-> "", status |-> "", consensus |-> FALSE,
          createdAt |-> 0]
NoWin == [validatorId |-> "", reports |-> << >>, consensusReached |-> FALSE,
          threshold |-> 0]
NoValues == [totalReports |-> 0, unhealthyReports |-> 0, threshold |-> 0,
             consensusReached |-> FALSE]
NoLoc == [win |-> 0, ids |-> {}, unhealthy |-> 0, seen |-> 0, hook |-> 0]

\* the webhook_configs rows of user u1
WebhookTable ==
  << [isActive |-> TRUE, events |-> {"validator.unhealthy"}],
     [isActive |-> FALSE, events |-> {"validator.unhealthy"}],
     [isActive |-> TRUE, events |-> {"validator.unhealthy"}] >>

VARIABLES
  now,               \* the clock, in sweep periods
  lastSweep,         \* the period in which cleanupOldConsensus last ran
  consensusThreshold,\* AgentP2PService.consensusThreshold
  pc,                \* per request: the await its handler is suspended at
  body,              \* per request: req.body
  loc,               \* per request: locals of the suspended handler
  resp,              \* per request: HTTP status answered (0: none yet)
  reports,           \* agent_reports rows, by id (the id is the request's)
  lastSeen,          \* agents.lastSeen
  alerts,            \* alerts rows
  windows,           \* the ConsensusData objects ever created, by identity
  activeConsensus,   \* AgentP2PService.activeConsensus: validator -> object
  pendingFail,       \* updateMany calls of the sweep that storage has not applied yet
  broadcasts,        \* calls made to the WebSocketService
  joined,            \* history: the ConsensusData a request's report was put into
  applied,           \* history: the ConsensusData's values once the report was put in
  winEnd,            \* history: how a ConsensusData left activeConsensus
  startedWith,       \* history: the requests in flight when a request arrived
  deliveries         \* calls made to WebhookService.sendWebhook and their outcome

collectorVars ==
  <<now, lastSweep, consensusThreshold, pc, body, loc, resp, reports, lastSeen,
    alerts, windows, activeConsensus, pendingFail, broadcasts, joined, applied, winEnd,
    startedWith, deliveries>>

\* ---- the agent (SentinelAgent, PeerNetwork, ApiClient) ------------------
MaxCycles == 2       \* monitoring cycles of the agent in one behaviour
Peers == {"p1", "p2"}

maxRetries == 3      \* Config: maxRetries, the default
MaxSock == 3         \* connections to the agent's PeerNetwork in one behaviour
Sock == 1..MaxSock
helloCount == 2      \* peer_hello messages a side sends when a connection opens

\* a WebSocket of the PeerNetwork: readyState, the agent at the other end,
\* the peerId variable of setupSocket, the peer_hello messages in flight to
\* it and delivered on it, and whether the transport has closed it
NoSocket == [readyState |-> "CONNECTING", remote |-> "", peerId |-> "",
             inbox |-> 0, heard |-> 0, cut |-> FALSE]

healthCheckRetries == 3  \* Config: healthCheckRetries, the default
MaxProbes == 2       \* health checks of the BeaconNodeMonitor in one behaviour

\* what an attempt's GET /eth/v1/node/health may end with: an answer with a
\* status below 500 (validateStatus), or a throw (5xx, timeout, transport)
Answers == {"200", "206", "404", "error"}

\* a health check: the await it is suspended at, the attempt, the answers
\* its attempts got, its result, the block height and the checks made
NoProbe == [pc |-> "idle", attempt |-> 0, answers |-> << >>, status |-> "",
            blockHeight |-> "", count |-> 0]

OwnValidator == "v1" \* Config.getValidatorId() of the agent

\* the consensus_request messages peer p1 may send ("": no consensusId)
ConsensusRequests ==
  [validatorId : {"v1", "v2"}, consensusId : {"", "c1"}, agentId : {"p1"}]

NoRequest == [validatorId |-> "", consensusId |-> "", agentId |-> ""]
NoResponse == [validatorId |-> "", consensusId |-> "", requesterId |-> "",
               agree |-> FALSE, request |-> NoRequest, known |-> "",
               probed |-> "", inWait |-> FALSE]

\* history of one monitoring cycle: the probe status, lastReportedStatus at the
\* probe, the consensus result, the POSTs made and the outcome of the report,
\* and what requestConsensus did and heard
NoCycle == [status |-> "", prev |-> "", hasResult |-> FALSE, agreeCount |-> 0,
            totalPeers |-> 0, sent |-> 0, outcome |-> "",
            peersAtCall |-> 0, broadcast |-> FALSE, waited |-> FALSE,
            last |-> [p \in Peers |-> ""]]

VARIABLES
  p2pEnabled,          \* Config.isP2PEnabled()
  agentThreshold,      \* Config.getConsensusThreshold()
  started,             \* start() has been called
  isRunning,           \* SentinelAgent.isRunning
  monitoringInProgress,\* SentinelAgent.monitoringInProgress
  monitoringInterval,  \* the cycle timer is set
  firstCycle,          \* the cycle in flight is the one start() awaits
  lastHealthCheck,     \* status of SentinelAgent.lastHealthCheck ("": none)
  lastReportedStatus,  \* SentinelAgent.lastReportedStatus ("": undefined)
  peerNetwork,         \* SentinelAgent.peerNetwork is defined
  stopping,            \* stop() awaits peerNetwork.stop()
  peers,               \* PeerNetwork.peers (the registered peer ids)
  cyclePc,             \* the await the monitoring cycle is suspended at
  healthResult,        \* status of the cycle's HealthCheckResult
  responses,           \* requestConsensus: the responses array
  cycles,              \* monitoring cycles started
  posts,               \* POST /api/report requests sent by the ApiClient
  cyc,                 \* history of the latest cycle
  pendingRequests,     \* consensus requests whose handler awaits a manual probe
  lastResponse,        \* the last consensus_response sent, with its request
  sockets,             \* the WebSockets of the PeerNetwork, by connection
  peerSockets,         \* PeerNetwork.peers: peer id -> socket (0: no entry)
  probe                \* BeaconNodeMonitor: the health check in progress

transportVars == <<sockets, peerSockets>>
probeVars == <<probe>>

agentVars ==
  <<p2pEnabled, agentThreshold, started, isRunning, monitoringInProgress,
    monitoringInterval, firstCycle, lastHealthCheck, lastReportedStatus,
    peerNetwork, stopping, peers, cyclePc, healthResult, responses, cycles,
    posts, cyc,
    pendingRequests, lastResponse, transportVars, probeVars>>

\* ---- the observer sessions (WebSocketService) ---------------------------
MaxSessions == 3     \* observer connections in one behaviour
MaxMessages == 2     \* broadcasts in one behaviour
Session == 1..MaxSessions

VARIABLES
  clients,           \* WebSocketService.clients: the ids in the map
  wsState,           \* per connection: readyState ("NONE": not connected yet)
  wsEvent,           \* history: the close or error event a connection emitted
  received,          \* history: the broadcasts sent on a connection
  messages           \* history: the broadcast calls made

observerVars == <<clients, wsState, wsEvent, received, messages>>

vars == <<collectorVars, agentVars, observerVars>>

InFlight == {r \in Req : pc[r] \notin {"idle", "done"}}

\* ---- pure parts of AgentP2PService --------------------------------------

\* findIndex of the agent's entry in ConsensusData.reports (0: none)
IndexOfAgent(reps, a) ==
  IF \E i \in 1..Len(reps) : reps[i].agentId = a
  THEN CHOOSE i \in 1..Len(reps) :
         /\ reps[i].agentId = a
         /\ \A j \in 1..(i - 1) : reps[j].agentId # a
  ELSE 0

UpsertReport_AlwaysPush(reps, e) == Append(reps, e)

\* addReportToConsensus, the upsert: an agent's existing entry takes the new
\* report's status and createdAt (and keeps its id), a new agent is appended
UpsertReport(reps, e) ==
  LET i == IndexOfAgent(reps, e.agentId) IN
  IF i > 0
  THEN [reps EXCEPT ![i] = [@ EXCEPT !.status = e.status, !.createdAt = e.createdAt]]
  ELSE Append(reps, e)

UnhealthyCount(reps) ==
  Cardinality({i \in 1..Len(reps) : reps[i].status = "UNHEALTHY"})

ReportIds_SkipFirst(reps) == {reps[i].id : i \in 2..Len(reps)}

\* consensusData.reports.map((r) => r.id)
ReportIds(reps) == {reps[i].id : i \in 1..Len(reps)}

UpdateMany_AllRows(rows, ids, st, cons) ==
  [r \in Req |->
     IF rows[r] # NoRow
     THEN [rows[r] EXCEPT !.status = st,
                          !.consensus = IF cons THEN TRUE ELSE @]
     ELSE rows[r]]

\* prisma.agentReport.updateMany({where: {id: {in: ids}}, data})
UpdateMany(rows, ids, st, cons) ==
  [r \in Req |->
     IF r \in ids /\ rows[r] # NoRow
     THEN [rows[r] EXCEPT !.status = st,
                          !.consensus = IF cons THEN TRUE ELSE @]
     ELSE rows[r]]

\* ---- messages handed to the WebSocketService ----------------------------
ConsensusUpdate(r, v, total, unhealthy, threshold, reached) ==
  [type |-> "consensus_update", by |-> r, validatorId |-> v, status |-> "",
   totalReports |-> total, unhealthyReports |-> unhealthy,
   threshold |-> threshold, flag |-> reached]
ValidatorUpdate(r, v, st, count, flg) ==
  [type |-> "validator_update", by |-> r, validatorId |-> v, status |-> st,
   totalReports |-> count, unhealthyReports |-> 0, threshold |-> 0, flag |-> flg]
AlertNotification(r, v) ==
  [type |-> "alert", by |-> r, validatorId |-> v, status |-> "PENDING",
   totalReports |-> 0, unhealthyReports |-> 0, threshold |-> 0, flag |-> FALSE]

CollectorInit ==
  /\ now = 0
  /\ lastSweep = 0
  /\ pc = [r \in Req |-> "idle"]
  /\ body = [r \in Req |-> NoBody]
  /\ loc = [r \in Req |-> NoLoc]
  /\ resp = [r \in Req |-> 0]
  /\ reports = [r \in Req |-> NoRow]
  /\ lastSeen = [a \in Agents |-> 0]
  /\ alerts = {}
  /\ windows = [w \in Req |-> NoWin]
  /\ activeConsensus = [v \in Validators |-> 0]
  /\ pendingFail = {}
  /\ broadcasts = {}
  /\ joined = [r \in Req |-> 0]
  /\ applied = [r \in Req |-> NoValues]
  /\ winEnd = [w \in Req |-> "none"]
  /\ startedWith = [r \in Req |-> {}]
  /\ deliveries = {}
  /\ clients = {}
  /\ wsState = [s \in Session |-> "NONE"]
  /\ wsEvent = [s \in Session |-> ""]
  /\ received = [s \in Session |-> {}]
  /\ messages = 0

AgentInit ==
  /\ started = FALSE
  /\ isRunning = FALSE
  /\ monitoringInProgress = FALSE
  /\ monitoringInterval = FALSE
  /\ firstCycle = FALSE
  /\ lastHealthCheck = ""
  /\ lastReportedStatus = ""
  /\ peerNetwork = FALSE
  /\ stopping = FALSE
  /\ peers = {}
  /\ cyclePc = "none"
  /\ healthResult = ""
  /\ responses = << >>
  /\ cycles = 0
  /\ posts = 0
  /\ cyc = NoCycle
  /\ pendingRequests = {}
  /\ lastResponse = NoResponse
  /\ sockets = [s \in Sock |-> NoSocket]
  /\ peerSockets = [p \in Peers |-> 0]
  /\ probe = NoProbe

\* the collector, for every configured threshold
Init ==
  /\ CollectorInit
  /\ consensusThreshold \in 1..MaxThreshold
  /\ AgentInit
  /\ p2pEnabled = FALSE
  /\ agentThreshold = 1

\* one agent, for every configuration of its consensus
InitAgent ==
  /\ CollectorInit
  /\ consensusThreshold = 1
  /\ AgentInit
  /\ p2pEnabled \in BOOLEAN
  /\ agentThreshold \in 1..MaxThreshold

BadRequest_Lenient(b) == 0

\* POST /api/report, the checks on the body alone: 400 or 0 (passed)
BadRequest(b) ==
  IF b.agentId = "" \/ b.agentApiKey = "" \/ b.validatorId = "" \/ b.status = ""
  THEN 400
  ELSE IF b.status \notin allowedStatuses THEN 400 ELSE 0

Unauthorized_ScopeFirst(b) ==
  IF b.agentId \notin Agents THEN 401
  ELSE IF AgentTable[b.agentId].validator # b.validatorId THEN 403
  ELSE IF ~ValidatorTable[b.validatorId].isActive THEN 403
  ELSE IF ~AgentTable[b.agentId].isActive THEN 401
  ELSE IF AgentTable[b.agentId].apiKey # b.agentApiKey THEN 401
  ELSE 0

\* POST /api/report, the checks on the agent row: 401, 403 or 0 (passed)
Unauthorized(b) ==
  IF b.agentId \notin Agents \/ ~AgentTable[b.agentId].isActive THEN 401
  ELSE IF AgentTable[b.agentId].apiKey # b.agentApiKey THEN 401
  ELSE IF AgentTable[b.agentId].validator # b.validatorId THEN 403
  ELSE IF ~ValidatorTable[b.validatorId].isActive THEN 403
  ELSE 0

\* the handler answers and ends
Respond(r, code) ==
  /\ pc' = [pc EXCEPT ![r] = "done"]
  /\ resp' = [resp EXCEPT ![r] = code]
  /\ loc' = [loc EXCEPT ![r] = NoLoc]

\* POST /api/report up to the agent lookup
receiveReport(r) ==
  /\ pc[r] = "idle" /\ r <= MaxReq
  /\ \A q \in 1..(r - 1) : pc[q] # "idle"
  /\ Cardinality(InFlight) < MaxInFlight
  /\ \E b \in Bodies :
       /\ body' = [body EXCEPT ![r] = b]
       /\ startedWith' = [startedWith EXCEPT ![r] = InFlight]
       /\ IF BadRequest(b) # 0
          THEN Respond(r, BadRequest(b))
          ELSE /\ pc' = [pc EXCEPT ![r] = "findAgent"]
               /\ UNCHANGED <<resp, loc>>
  /\ UNCHANGED <<now, lastSweep, consensusThreshold, reports, lastSeen, alerts,
                 windows, activeConsensus, pendingFail, broadcasts, joined, applied, winEnd,
                 deliveries>>
  /\ UNCHANGED <<agentVars, observerVars>>

\* POST /api/report up to the agent lookup, for the requests of any client
receiveAnyReport(r) ==
  /\ pc[r] = "idle" /\ r <= MaxReq
  /\ \A q \in 1..(r - 1) : pc[q] # "idle"
  /\ Cardinality(InFlight) < MaxInFlight
  /\ \E b \in AnyBodies :
       /\ body' = [body EXCEPT ![r] = b]
       /\ startedWith' = [startedWith EXCEPT ![r] = InFlight]
       /\ IF BadRequest(b) # 0
          THEN Respond(r, BadRequest(b))
          ELSE /\ pc' = [pc EXCEPT ![r] = "findAgent"]
               /\ UNCHANGED <<resp, loc>>
  /\ UNCHANGED <<now, lastSweep, consensusThreshold, reports, lastSeen, alerts,
                 windows, activeConsensus, pendingFail, broadcasts, joined, applied, winEnd,
                 deliveries>>
  /\ UNCHANGED <<agentVars, observerVars>>

\* the reports the agents of validator v1 send in a burst
BurstBodies == {b \in Bodies : b.validatorId = "v1"}

\* POST /api/report up to the agent lookup, for a burst of reports
receiveBurst(r) ==
  /\ pc[r] = "idle" /\ r <= MaxBurst
  /\ \A q \in 1..(r - 1) : pc[q] # "idle"
  /\ Cardinality(InFlight) < MaxInFlight
  /\ \E b \in BurstBodies :
       /\ body' = [body EXCEPT ![r] = b]
       /\ startedWith' = [startedWith EXCEPT ![r] = InFlight]
       /\ IF BadRequest(b) # 0
          THEN Respond(r, BadRequest(b))
          ELSE /\ pc' = [pc EXCEPT ![r] = "findAgent"]
               /\ UNCHANGED <<resp, loc>>
  /\ UNCHANGED <<now, lastSweep, consensusThreshold, reports, lastSeen, alerts,
                 windows, activeConsensus, pendingFail, broadcasts, joined, applied, winEnd,
                 deliveries>>
  /\ UNCHANGED <<agentVars, observerVars>>

\* POST /api/report from the agent lookup to prisma.agentReport.create
checkAgent(r) ==
  /\ pc[r] = "findAgent"
  /\ IF Unauthorized(body[r]) # 0
     THEN Respond(r, Unauthorized(body[r]))
     ELSE /\ pc' = [pc EXCEPT ![r] = "createReport"]
          /\ UNCHANGED <<resp, loc>>
  /\ UNCHANGED <<now, lastSweep, consensusThreshold, body, reports, lastSeen,
                 alerts, windows, activeConsensus, pendingFail, broadcasts,
                 joined, applied, winEnd, startedWith, deliveries>>
  /\ UNCHANGED <<agentVars, observerVars>>

\* the row is created; POST /api/report goes on to prisma.agent.update
createReport(r) ==
  /\ pc[r] = "createReport"
  /\ reports' = [reports EXCEPT ![r] =
       [agentId |-> body[r].agentId, validatorId |-> body[r].validatorId,
        status |-> body[r].status, consensus |-> FALSE, createdAt |-> now]]
  /\ loc' = [loc EXCEPT ![r].seen = now]
  /\ pc' = [pc EXCEPT ![r] = "updateLastSeen"]
  /\ UNCHANGED <<now, lastSweep, consensusThreshold, body, resp, lastSeen,
                 alerts, windows, activeConsensus, pendingFail, broadcasts,
                 joined, applied, winEnd, startedWith, deliveries>>
  /\ UNCHANGED <<agentVars, observerVars>>

\* lastSeen is written; the handler calls processReport, which runs to its
\* own prisma.agent.update
updateLastSeen(r) ==
  /\ pc[r] = "updateLastSeen"
  /\ lastSeen' = [lastSeen EXCEPT ![body[r].agentId] = loc[r].seen]
  /\ loc' = [loc EXCEPT ![r].seen = now]
  /\ pc' = [pc EXCEPT ![r] = "processReport"]
  /\ UNCHANGED <<now, lastSweep, consensusThreshold, body, resp, reports,
                 alerts, windows, activeConsensus, pendingFail, broadcasts,
                 joined, applied, winEnd, startedWith, deliveries>>
  /\ UNCHANGED <<agentVars, observerVars>>

QuorumCrossed_NoLatch(unhealthy, threshold, reached) ==
  unhealthy >= threshold

\* addReportToConsensus, the quorum test
QuorumCrossed(unhealthy, threshold, reached) ==
  unhealthy >= threshold /\ ~reached

\* addReportToConsensus: the upsert and the quorum test; on quorum
\* reachConsensus sets the latch and awaits prisma.validator.findUnique,
\* otherwise the consensus_update is sent and the request is answered
addReportToConsensus(r, w, data, e) ==
  LET reps == UpsertReport(data.reports, e)
      unhealthy == UnhealthyCount(reps)
  IN /\ joined' = [joined EXCEPT ![r] = w]
     /\ applied' = [applied EXCEPT ![r] =
          [totalReports |-> Len(reps), unhealthyReports |-> unhealthy,
           threshold |-> data.threshold,
           consensusReached |->
             (data.consensusReached
                \/ QuorumCrossed(unhealthy, data.threshold, data.consensusReached))]]
     /\ IF QuorumCrossed(unhealthy, data.threshold, data.consensusReached)
        THEN /\ windows' = [windows EXCEPT ![w] =
                  [data EXCEPT !.reports = reps, !.consensusReached = TRUE]]
             /\ loc' = [loc EXCEPT ![r] = [@ EXCEPT !.win = w, !.unhealthy = unhealthy]]
             /\ pc' = [pc EXCEPT ![r] = "findValidator"]
             /\ UNCHANGED <<resp, broadcasts>>
        ELSE /\ windows' = [windows EXCEPT ![w] = [data EXCEPT !.reports = reps]]
             /\ broadcasts' = broadcasts \cup
                  {ConsensusUpdate(r, data.validatorId, Len(reps), unhealthy,
                                   data.threshold, data.consensusReached)}
             /\ Respond(r, 200)

HasConsensus_WrongKey(v) == FALSE

\* activeConsensus.has(consensusKey)
HasConsensus(v) == activeConsensus[v] # 0

\* initiateConsensus: join the validator's ConsensusData or create it
initiateConsensus(r) ==
  LET v == body[r].validatorId
      e == [id |-> r, agentId |-> body[r].agentId, status |-> body[r].status,
            createdAt |-> reports[r].createdAt]
  IN IF HasConsensus(v)
     THEN /\ addReportToConsensus(r, activeConsensus[v], windows[activeConsensus[v]], e)
          /\ UNCHANGED <<activeConsensus, winEnd>>
     ELSE /\ activeConsensus' = [activeConsensus EXCEPT ![v] = r]
          /\ winEnd' = [winEnd EXCEPT ![r] = "open"]
          /\ addReportToConsensus(r, r,
               [validatorId |-> v, reports |-> <<e>>, consensusReached |-> FALSE,
                threshold |-> consensusThreshold], e)

\* cancelConsensus up to prisma.agentReport.updateMany
cancelConsensus(r) ==
  LET v == body[r].validatorId IN
  /\ IF HasConsensus(v)
     THEN /\ loc' = [loc EXCEPT ![r] =
               [@ EXCEPT !.win = activeConsensus[v],
                         !.ids = ReportIds(windows[activeConsensus[v]].reports)]]
          /\ pc' = [pc EXCEPT ![r] = "cancelUpdate"]
          /\ UNCHANGED resp
     ELSE Respond(r, 200)
  /\ UNCHANGED <<windows, activeConsensus, winEnd, joined, applied, broadcasts>>

OpensConsensus_NotHealthy(st) == st # "HEALTHY"

\* processReport: the status that starts or joins a consensus
OpensConsensus(st) == st = "UNHEALTHY"

\* processReport after its prisma.agent.update
processReport(r) ==
  /\ pc[r] = "processReport"
  /\ lastSeen' = [lastSeen EXCEPT ![body[r].agentId] = loc[r].seen]
  /\ IF OpensConsensus(body[r].status) THEN initiateConsensus(r)
     ELSE IF body[r].status = "HEALTHY" THEN cancelConsensus(r)
     ELSE /\ Respond(r, 200)
          /\ UNCHANGED <<windows, activeConsensus, winEnd, joined, applied, broadcasts>>
  /\ UNCHANGED <<now, lastSweep, consensusThreshold, body, reports, alerts,
                 pendingFail, startedWith, deliveries>>
  /\ UNCHANGED <<agentVars, observerVars>>

\* cancelConsensus after its updateMany: the rows are rewritten, the healthy
\* update is sent and the key is deleted
cancelConsensus_done(r) ==
  /\ pc[r] = "cancelUpdate"
  /\ LET v == body[r].validatorId IN
     /\ reports' = UpdateMany(reports, loc[r].ids, "CONSENSUS_FAILED", FALSE)
     /\ broadcasts' = broadcasts \cup {ValidatorUpdate(r, v, "healthy", 0, TRUE)}
     /\ activeConsensus' = [activeConsensus EXCEPT ![v] = 0]
     /\ winEnd' = IF activeConsensus[v] # 0
                  THEN [winEnd EXCEPT ![activeConsensus[v]] = "cancelled"]
                  ELSE winEnd
  /\ Respond(r, 200)
  /\ UNCHANGED <<now, lastSweep, consensusThreshold, body, lastSeen, alerts,
                 windows, pendingFail, joined, applied, startedWith, deliveries>>
  /\ UNCHANGED <<agentVars, observerVars>>

\* reachConsensus after prisma.validator.findUnique, up to prisma.alert.create
reachConsensus_validator(r) ==
  /\ pc[r] = "findValidator"
  /\ IF windows[loc[r].win].validatorId \notin Validators
     THEN /\ broadcasts' = broadcasts \cup
               {ConsensusUpdate(r, windows[loc[r].win].validatorId,
                                Len(windows[loc[r].win].reports), loc[r].unhealthy,
                                windows[loc[r].win].threshold,
                                windows[loc[r].win].consensusReached)}
          /\ Respond(r, 200)
     ELSE /\ pc' = [pc EXCEPT ![r] = "createAlert"]
          /\ UNCHANGED <<resp, loc, broadcasts>>
  /\ UNCHANGED <<now, lastSweep, consensusThreshold, body, reports, lastSeen,
                 alerts, windows, activeConsensus, pendingFail, joined, applied, winEnd,
                 startedWith, deliveries>>
  /\ UNCHANGED <<agentVars, observerVars>>

\* the alert row is created; reachConsensus goes on to updateMany
reachConsensus_alert(r) ==
  /\ pc[r] = "createAlert"
  /\ alerts' = alerts \cup
       {[id |-> r, validatorId |-> windows[loc[r].win].validatorId,
         status |-> "PENDING", win |-> loc[r].win]}
  /\ loc' = [loc EXCEPT ![r].ids = ReportIds(windows[loc[r].win].reports)]
  /\ pc' = [pc EXCEPT ![r] = "reachUpdate"]
  /\ UNCHANGED <<now, lastSweep, consensusThreshold, body, resp, reports,
                 lastSeen, windows, activeConsensus, pendingFail, broadcasts,
                 joined, applied, winEnd, startedWith, deliveries>>
  /\ UNCHANGED <<agentVars, observerVars>>

\* the webhooks triggerWebhooks sends to, in order
MatchingHooks(event) ==
  SelectSeq([i \in 1..Len(WebhookTable) |-> i],
            LAMBDA i : WebhookTable[i].isActive /\ event \in WebhookTable[i].events)

ActiveAfterQuorum_Deleted(v) == [activeConsensus EXCEPT ![v] = 0]

\* activeConsensus after reachConsensus: the ConsensusData of v stays, with
\* its latch set
ActiveAfterQuorum(v) == activeConsensus

\* the rows are rewritten; reachConsensus sends the unhealthy update and the
\* alert, and triggerWebhooks awaits prisma.webhookConfig.findMany
reachConsensus_update(r) ==
  /\ pc[r] = "reachUpdate"
  /\ LET data == windows[loc[r].win] IN
     /\ reports' = UpdateMany(reports, loc[r].ids, "CONSENSUS_REACHED", TRUE)
     /\ activeConsensus' = ActiveAfterQuorum(data.validatorId)
     /\ broadcasts' = broadcasts \cup
          {ValidatorUpdate(r, data.validatorId, "unhealthy", Len(data.reports), TRUE),
           AlertNotification(r, data.validatorId)}
  /\ loc' = [loc EXCEPT ![r].hook = 0]
  /\ pc' = [pc EXCEPT ![r] = "triggerWebhooks"]
  /\ UNCHANGED <<now, lastSweep, consensusThreshold, body, resp, lastSeen,
                 alerts, windows, pendingFail, joined, applied, winEnd, startedWith,
                 deliveries>>
  /\ UNCHANGED <<agentVars, observerVars>>

LoopGoesOn_UntilFailure(ok) == ok

\* triggerWebhooks: the try/catch inside the loop; a sendWebhook that
\* rejects is logged and the loop goes on
LoopGoesOn(ok) == TRUE

\* triggerWebhooks: one turn of the loop.  The pending sendWebhook (if any)
\* ends, delivered or failed; the next one is sent, or after the last one
\* control returns to addReportToConsensus, which sends the consensus_update
triggerWebhooks(r) ==
  /\ pc[r] = "triggerWebhooks"
  /\ LET hooks == MatchingHooks("validator.unhealthy")
         data == windows[loc[r].win]
     IN \E ok \in BOOLEAN :
          /\ IF loc[r].hook > 0
             THEN deliveries' = deliveries \cup
                    {[by |-> r, hook |-> hooks[loc[r].hook], ok |-> ok]}
             ELSE /\ ok
                  /\ UNCHANGED deliveries
          /\ IF loc[r].hook < Len(hooks) /\ LoopGoesOn(ok)
             THEN /\ loc' = [loc EXCEPT ![r].hook = @ + 1]
                  /\ UNCHANGED <<pc, resp, broadcasts>>
             ELSE /\ broadcasts' = broadcasts \cup
                       {ConsensusUpdate(r, data.validatorId, Len(data.reports),
                                        loc[r].unhealthy, data.threshold,
                                        data.consensusReached)}
                  /\ Respond(r, 200)
  /\ UNCHANGED <<now, lastSweep, consensusThreshold, body, reports, lastSeen,
                 alerts, windows, activeConsensus, pendingFail, joined, applied, winEnd,
                 startedWith>>
  /\ UNCHANGED <<agentVars, observerVars>>

\* the ConsensusData objects cleanupOldConsensus removes
Aged(v) ==
  /\ activeConsensus[v] # 0
  /\ now - windows[activeConsensus[v]].reports[1].createdAt > MaxAge

\* cleanupOldConsensus, run by the 5-minute timer: every aged ConsensusData
\* is deleted and its updateMany is started without being awaited
cleanupOldConsensus ==
  /\ lastSweep < now
  /\ lastSweep' = now
  /\ pendingFail' = pendingFail \cup
       {ReportIds(windows[activeConsensus[v]].reports) : v \in {u \in Validators : Aged(u)}}
  /\ activeConsensus' = [v \in Validators |-> IF Aged(v) THEN 0 ELSE activeConsensus[v]]
  /\ winEnd' = [w \in Req |->
       IF \E v \in Validators : Aged(v) /\ activeConsensus[v] = w
       THEN "aged" ELSE winEnd[w]]
  /\ UNCHANGED <<now, consensusThreshold, pc, body, loc, resp, reports, lastSeen,
                 alerts, windows, broadcasts, joined, applied, startedWith, deliveries>>
  /\ UNCHANGED <<agentVars, observerVars>>

\* storage applies an updateMany of the sweep
cleanupOldConsensus_update ==
  /\ \E ids \in pendingFail :
       /\ reports' = UpdateMany(reports, ids, "CONSENSUS_FAILED", FALSE)
       /\ pendingFail' = pendingFail \ {ids}
  /\ UNCHANGED <<now, lastSweep, consensusThreshold, pc, body, loc, resp,
                 lastSeen, alerts, windows, activeConsensus, broadcasts, joined, applied,
                 winEnd, startedWith, deliveries>>
  /\ UNCHANGED <<agentVars, observerVars>>

\* a sweep period passes; the timer has fired in the period that ends
Tick ==
  /\ now < MaxTime
  /\ lastSweep = now
  /\ InFlight = {}
  /\ now' = now + 1
  /\ UNCHANGED <<lastSweep, consensusThreshold, pc, body, loc, resp, reports,
                 lastSeen, alerts, windows, activeConsensus, pendingFail,
                 broadcasts, joined, applied, winEnd, startedWith, deliveries>>
  /\ UNCHANGED <<agentVars, observerVars>>

Next ==
  \/ \E r \in Req : receiveReport(r)
  \/ \E r \in Req : checkAgent(r)
  \/ \E r \in Req : createReport(r)
  \/ \E r \in Req : updateLastSeen(r)
  \/ \E r \in Req : processReport(r)
  \/ \E r \in Req : cancelConsensus_done(r)
  \/ \E r \in Req : reachConsensus_validator(r)
  \/ \E r \in Req : reachConsensus_alert(r)
  \/ \E r \in Req : reachConsensus_update(r)
  \/ \E r \in Req : triggerWebhooks(r)
  \/ cleanupOldConsensus
  \/ cleanupOldConsensus_update
  \/ Tick

Spec == Init /\ [][Next]_vars

\* the collector when any client may call POST /api/report
NextIngress ==
  \/ \E r \in Req : receiveAnyReport(r)
  \/ \E r \in Req : checkAgent(r)
  \/ \E r \in Req : createReport(r)
  \/ \E r \in Req : updateLastSeen(r)
  \/ \E r \in Req : processReport(r)
  \/ \E r \in Req : cancelConsensus_done(r)
  \/ \E r \in Req : reachConsensus_validator(r)
  \/ \E r \in Req : reachConsensus_alert(r)
  \/ \E r \in Req : reachConsensus_update(r)
  \/ \E r \in Req : triggerWebhooks(r)
  \/ cleanupOldConsensus
  \/ cleanupOldConsensus_update
  \/ Tick

SpecIngress == Init /\ [][NextIngress]_vars

TypeOK ==
  /\ now \in 0..MaxTime
  /\ \A r \in Req : resp[r] \in {0, 200, 400, 401, 403, 500}

\* ---- the agent ----------------------------------------------------------

\* WebSocket.terminate(): the socket is destroyed, its close event follows
Terminate(sock) ==
  IF sock.readyState = "OPEN" THEN [sock EXCEPT !.readyState = "CLOSING"] ELSE sock

hasStatusChanged_Always(currentStatus) == TRUE

\* hasStatusChanged
hasStatusChanged(currentStatus) ==
  IF lastReportedStatus = "" THEN TRUE ELSE lastReportedStatus # currentStatus

UpsertResponse_Push(rs, resp0) == Append(rs, resp0)

\* requestConsensus, the handler's upsert of a response by agentId
UpsertResponse(rs, resp0) ==
  IF \E i \in 1..Len(rs) : rs[i].agentId = resp0.agentId
  THEN [i \in 1..Len(rs) |-> IF rs[i].agentId = resp0.agentId THEN resp0 ELSE rs[i]]
  ELSE Append(rs, resp0)

AgreeCount(rs) == Cardinality({i \in 1..Len(rs) : rs[i].agree})

ConsensusConfirmed_PeersOnly(agreeCount, totalPeers, threshold) ==
  IF totalPeers = 0 THEN TRUE ELSE agreeCount >= threshold

\* confirmUnhealthyWithPeers, the decision on a consensus result
ConsensusConfirmed(agreeCount, totalPeers, threshold) ==
  IF totalPeers = 0 THEN TRUE ELSE agreeCount + 1 >= threshold

NoPeers_Never(ps) == FALSE

\* requestConsensus: no peer is registered
NoPeers(ps) == ps = {}

ReportedAfter_Always(success) == healthResult

\* sendHealthReport: lastReportedStatus after ApiClient.sendReport returned
ReportedAfter(success) ==
  IF success THEN healthResult ELSE lastReportedStatus

\* the cycle ends: updateAgentStatus, then the finally block; the cycle that
\* start() awaited is followed by setInterval
EndCycle ==
  /\ cyclePc' = "none"
  /\ monitoringInProgress' = FALSE
  /\ monitoringInterval' = IF firstCycle THEN TRUE ELSE monitoringInterval
  /\ firstCycle' = FALSE

\* sendHealthReport up to the POST of ApiClient.sendReport
SendHealthReport ==
  /\ cyclePc' = "report"
  /\ posts' = posts + 1
  /\ UNCHANGED <<monitoringInProgress, monitoringInterval, firstCycle>>

\* performMonitoringCycle up to the probe
BeginCycle ==
  /\ monitoringInProgress' = TRUE
  /\ cyclePc' = "probe"
  /\ cycles' = cycles + 1
  /\ cyc' = NoCycle
  /\ healthResult' = ""
  /\ responses' = << >>

\* start(): the peer network is initialized and the first cycle begins
start ==
  /\ ~started
  /\ started' = TRUE
  /\ peerNetwork' = p2pEnabled
  /\ isRunning' = TRUE
  /\ firstCycle' = TRUE
  /\ BeginCycle
  /\ UNCHANGED <<p2pEnabled, agentThreshold, monitoringInterval, lastHealthCheck,
                 lastReportedStatus, stopping, peers, posts>>
  /\ UNCHANGED <<pendingRequests, lastResponse>>
  /\ UNCHANGED <<transportVars, probeVars>>
  /\ UNCHANGED <<collectorVars, observerVars>>

MayStartCycle_WhileRunning == isRunning

\* performMonitoringCycle: the guard before the in-progress flag is set
MayStartCycle == isRunning /\ ~monitoringInProgress

\* the cycle timer fires: performMonitoringCycle
performMonitoringCycle ==
  /\ monitoringInterval
  /\ cycles < MaxCycles
  /\ MayStartCycle
  /\ BeginCycle
  /\ UNCHANGED <<p2pEnabled, agentThreshold, started, isRunning,
                 monitoringInterval, firstCycle, lastHealthCheck,
                 lastReportedStatus, peerNetwork, stopping, peers, posts>>
  /\ UNCHANGED <<pendingRequests, lastResponse>>
  /\ UNCHANGED <<transportVars, probeVars>>
  /\ UNCHANGED <<collectorVars, observerVars>>

\* the probe returns; handleHealthResult and confirmUnhealthyWithPeers run up
\* to the consensus wait, the report request or the end of the cycle
handleHealthResult ==
  /\ cyclePc = "probe"
  /\ \E st \in {"HEALTHY", "UNHEALTHY"} :
       /\ healthResult' = st
       /\ lastHealthCheck' = st
       /\ IF st = "UNHEALTHY"
          THEN IF ~p2pEnabled \/ ~peerNetwork
               THEN /\ SendHealthReport
                    /\ cyc' = [cyc EXCEPT !.status = st, !.prev = lastReportedStatus,
                                          !.sent = 1]
               ELSE IF NoPeers(peers)
               THEN \* requestConsensus returns {0, 0, []} at once
                    /\ IF ConsensusConfirmed(0, 0, agentThreshold)
                       THEN /\ SendHealthReport
                            /\ cyc' = [cyc EXCEPT !.status = st,
                                         !.prev = lastReportedStatus,
                                         !.hasResult = TRUE, !.sent = 1]
                       ELSE /\ EndCycle
                            /\ posts' = posts
                            /\ cyc' = [cyc EXCEPT !.status = st,
                                         !.prev = lastReportedStatus,
                                         !.hasResult = TRUE]
               ELSE \* the request is broadcast and the timeout awaited
                    /\ cyclePc' = "consensus"
                    /\ cyc' = [cyc EXCEPT !.status = st, !.prev = lastReportedStatus,
                                          !.peersAtCall = Cardinality(peers),
                                          !.broadcast = TRUE]
                    /\ UNCHANGED <<monitoringInProgress, monitoringInterval,
                                   firstCycle, posts>>
          ELSE IF hasStatusChanged(st)
               THEN /\ SendHealthReport
                    /\ cyc' = [cyc EXCEPT !.status = st, !.prev = lastReportedStatus,
                                          !.sent = 1]
               ELSE /\ EndCycle
                    /\ posts' = posts
                    /\ cyc' = [cyc EXCEPT !.status = st, !.prev = lastReportedStatus]
  /\ UNCHANGED <<p2pEnabled, agentThreshold, started, isRunning,
                 lastReportedStatus, peerNetwork, stopping, peers, responses,
                 cycles>>
  /\ UNCHANGED <<pendingRequests, lastResponse>>
  /\ UNCHANGED <<transportVars, probeVars>>
  /\ UNCHANGED <<collectorVars, observerVars>>

\* a consensus_response arrives on a socket, registered or not; during the wait the
\* handler of requestConsensus keeps it if it carries this request's
\* consensusId and requesterId; after the wait no handler is subscribed
consensusResponse ==
  /\ peerNetwork /\ ~stopping
  /\ \E p \in Peers, agree \in BOOLEAN, sameId \in BOOLEAN, toSelf \in BOOLEAN :
       IF cyclePc = "consensus"
       THEN IF sameId /\ toSelf
            THEN /\ responses' =
                      UpsertResponse(responses, [agentId |-> p, agree |-> agree])
                 /\ cyc' = [cyc EXCEPT !.last[p] = IF agree THEN "yes" ELSE "no"]
            ELSE UNCHANGED <<responses, cyc>>
       ELSE UNCHANGED <<responses, cyc>>
  /\ UNCHANGED <<p2pEnabled, agentThreshold, started, isRunning,
                 monitoringInProgress, monitoringInterval, firstCycle,
                 lastHealthCheck, lastReportedStatus, peerNetwork, stopping,
                 peers, cyclePc, healthResult, cycles, posts>>
  /\ UNCHANGED <<pendingRequests, lastResponse>>
  /\ UNCHANGED <<transportVars, probeVars>>
  /\ UNCHANGED <<collectorVars, observerVars>>

\* the consensus timeout elapses: requestConsensus returns and
\* confirmUnhealthyWithPeers decides
consensusTimeout ==
  /\ cyclePc = "consensus"
  /\ LET agreeCount == AgreeCount(responses)
         totalPeers == Cardinality(peers)
     IN IF ConsensusConfirmed(agreeCount, totalPeers, agentThreshold)
        THEN /\ SendHealthReport
             /\ cyc' = [cyc EXCEPT !.hasResult = TRUE, !.agreeCount = agreeCount,
                                   !.totalPeers = totalPeers, !.sent = 1,
                                   !.waited = TRUE]
        ELSE /\ EndCycle
             /\ posts' = posts
             /\ cyc' = [cyc EXCEPT !.hasResult = TRUE, !.agreeCount = agreeCount,
                                   !.totalPeers = totalPeers, !.waited = TRUE]
  /\ UNCHANGED <<p2pEnabled, agentThreshold, started, isRunning, lastHealthCheck,
                 lastReportedStatus, peerNetwork, stopping, peers, healthResult,
                 responses, cycles>>
  /\ UNCHANGED <<pendingRequests, lastResponse>>
  /\ UNCHANGED <<transportVars, probeVars>>
  /\ UNCHANGED <<collectorVars, observerVars>>

\* ApiClient.sendReport returns: the collector confirmed the report or not
sendHealthReport_done ==
  /\ cyclePc = "report"
  /\ \E success \in BOOLEAN :
       /\ lastReportedStatus' = ReportedAfter(success)
       /\ cyc' = [cyc EXCEPT !.outcome = IF success THEN "confirmed" ELSE "failed"]
  /\ EndCycle
  /\ UNCHANGED <<p2pEnabled, agentThreshold, started, isRunning, lastHealthCheck,
                 peerNetwork, stopping, peers, healthResult, responses, cycles,
                 posts>>
  /\ UNCHANGED <<pendingRequests, lastResponse>>
  /\ UNCHANGED <<transportVars, probeVars>>
  /\ UNCHANGED <<collectorVars, observerVars>>

\* a peer_hello registers a peer
registerPeer ==
  /\ peerNetwork /\ ~stopping
  /\ \E p \in Peers \ peers : peers' = peers \cup {p}
  /\ UNCHANGED <<p2pEnabled, agentThreshold, started, isRunning,
                 monitoringInProgress, monitoringInterval, firstCycle,
                 lastHealthCheck, lastReportedStatus, peerNetwork, stopping,
                 cyclePc, healthResult, responses, cycles, posts, cyc>>
  /\ UNCHANGED <<pendingRequests, lastResponse>>
  /\ UNCHANGED <<transportVars, probeVars>>
  /\ UNCHANGED <<collectorVars, observerVars>>

\* the socket of a registered peer closes
peerClosed ==
  /\ \E p \in peers : peers' = peers \ {p}
  /\ UNCHANGED <<p2pEnabled, agentThreshold, started, isRunning,
                 monitoringInProgress, monitoringInterval, firstCycle,
                 lastHealthCheck, lastReportedStatus, peerNetwork, stopping,
                 cyclePc, healthResult, responses, cycles, posts, cyc>>
  /\ UNCHANGED <<pendingRequests, lastResponse>>
  /\ UNCHANGED <<transportVars, probeVars>>
  /\ UNCHANGED <<collectorVars, observerVars>>

\* stop() up to the await of peerNetwork.stop(), which terminates the peers
stop ==
  /\ isRunning
  /\ isRunning' = FALSE
  /\ monitoringInterval' = FALSE
  /\ IF peerNetwork
     THEN /\ stopping' = TRUE
          /\ peers' = {}
          /\ sockets' = [s \in Sock |->
                           IF \E p \in Peers : peerSockets[p] = s
                           THEN Terminate(sockets[s]) ELSE sockets[s]]
          /\ peerSockets' = [p \in Peers |-> 0]
     ELSE UNCHANGED <<stopping, peers, transportVars>>
  /\ UNCHANGED probeVars
  /\ UNCHANGED <<p2pEnabled, agentThreshold, started, monitoringInProgress,
                 firstCycle, lastHealthCheck, lastReportedStatus, peerNetwork,
                 cyclePc, healthResult, responses, cycles, posts, cyc>>
  /\ UNCHANGED <<pendingRequests, lastResponse>>
  /\ UNCHANGED <<collectorVars, observerVars>>

\* teardownPeerNetwork after peerNetwork.stop()
teardownPeerNetwork ==
  /\ stopping
  /\ stopping' = FALSE
  /\ peerNetwork' = FALSE
  /\ UNCHANGED <<p2pEnabled, agentThreshold, started, isRunning,
                 monitoringInProgress, monitoringInterval, firstCycle,
                 lastHealthCheck, lastReportedStatus, peers, cyclePc,
                 healthResult, responses, cycles, posts, cyc>>
  /\ UNCHANGED <<pendingRequests, lastResponse>>
  /\ UNCHANGED <<transportVars, probeVars>>
  /\ UNCHANGED <<collectorVars, observerVars>>

AcceptsRequest_AnyValidator(req) == req.consensusId # ""

\* handleIncomingConsensusRequest, the two drops
AcceptsRequest(req) ==
  req.validatorId = OwnValidator /\ req.consensusId # ""

\* handleIncomingConsensusRequest from the decision on: the response handed
\* to PeerNetwork.sendConsensusResponse, which broadcasts it to the peers
SendConsensusResponse(req, known, probed) ==
  LET latestHealth == IF known # "" THEN known ELSE probed IN
  IF peers # {}
  THEN lastResponse' =
         [validatorId |-> req.validatorId, consensusId |-> req.consensusId,
          requesterId |-> req.agentId, agree |-> (latestHealth = "UNHEALTHY"),
          request |-> req, known |-> known, probed |-> probed,
          inWait |-> (cyclePc = "consensus")]
  ELSE lastResponse' = lastResponse

\* a consensus_request arrives on a socket: handleIncomingConsensusRequest up
\* to its end or to the await of manualHealthCheck
handleIncomingConsensusRequest ==
  /\ peerNetwork /\ ~stopping
  /\ \E req \in ConsensusRequests :
       IF ~AcceptsRequest(req)
       THEN UNCHANGED <<pendingRequests, lastResponse>>
       ELSE IF lastHealthCheck # ""
       THEN /\ SendConsensusResponse(req, lastHealthCheck, "")
            /\ UNCHANGED pendingRequests
       ELSE /\ pendingRequests' = pendingRequests \cup {req}
            /\ UNCHANGED lastResponse
  /\ UNCHANGED <<p2pEnabled, agentThreshold, started, isRunning,
                 monitoringInProgress, monitoringInterval, firstCycle,
                 lastHealthCheck, lastReportedStatus, peerNetwork, stopping,
                 peers, cyclePc, healthResult, responses, cycles, posts, cyc>>
  /\ UNCHANGED <<transportVars, probeVars>>
  /\ UNCHANGED <<collectorVars, observerVars>>

\* the manual probe of handleIncomingConsensusRequest returns; without a
\* peerNetwork the send throws and the catch block logs
manualHealthCheck_done ==
  /\ \E req \in pendingRequests, st \in {"HEALTHY", "UNHEALTHY"} :
       /\ pendingRequests' = pendingRequests \ {req}
       /\ lastHealthCheck' = st
       /\ IF peerNetwork
          THEN SendConsensusResponse(req, "", st)
          ELSE UNCHANGED lastResponse
  /\ UNCHANGED <<p2pEnabled, agentThreshold, started, isRunning,
                 monitoringInProgress, monitoringInterval, firstCycle,
                 lastReportedStatus, peerNetwork, stopping, peers, cyclePc,
                 healthResult, responses, cycles, posts, cyc>>
  /\ UNCHANGED <<transportVars, probeVars>>
  /\ UNCHANGED <<collectorVars, observerVars>>

NextAgent ==
  \/ start
  \/ performMonitoringCycle
  \/ handleHealthResult
  \/ consensusResponse
  \/ consensusTimeout
  \/ sendHealthReport_done
  \/ registerPeer
  \/ peerClosed
  \/ stop
  \/ teardownPeerNetwork

SpecAgent == InitAgent /\ [][NextAgent]_vars

\* performMonitoringCycle: the awaited probe rejects; the catch block logs
\* and the finally block clears the in-progress flag
cycleThrows ==
  /\ cyclePc = "probe"
  /\ EndCycle
  /\ UNCHANGED <<p2pEnabled, agentThreshold, started, isRunning,
                 lastHealthCheck, lastReportedStatus, peerNetwork, stopping,
                 peers, healthResult, responses, cycles, posts, cyc>>
  /\ UNCHANGED <<pendingRequests, lastResponse>>
  /\ UNCHANGED <<transportVars, probeVars>>
  /\ UNCHANGED <<collectorVars, observerVars>>

\* an agent whose start() has returned: the first cycle is over, its probe
\* result is kept, its report was confirmed or not, and the timer is armed;
\* cycles and posts count from here
InitCycle ==
  /\ CollectorInit
  /\ consensusThreshold = 1
  /\ p2pEnabled \in BOOLEAN
  /\ agentThreshold \in 1..MaxThreshold
  /\ started = TRUE
  /\ isRunning = TRUE
  /\ monitoringInProgress = FALSE
  /\ monitoringInterval = TRUE
  /\ firstCycle = FALSE
  /\ lastHealthCheck \in {"HEALTHY", "UNHEALTHY"}
  /\ lastReportedStatus \in {"", lastHealthCheck}
  /\ peerNetwork = p2pEnabled
  /\ stopping = FALSE
  /\ peers = {}
  /\ cyclePc = "none"
  /\ healthResult = lastHealthCheck
  /\ responses = << >>
  /\ cycles = 0
  /\ posts = 0
  /\ cyc = NoCycle
  /\ pendingRequests = {}
  /\ lastResponse = NoResponse
  /\ sockets = [s \in Sock |-> NoSocket]
  /\ peerSockets = [p \in Peers |-> 0]
  /\ probe = NoProbe

\* the timer-driven cycles of a started agent; a cycle may also end with an
\* exception
NextCycle ==
  \/ performMonitoringCycle
  \/ handleHealthResult
  \/ cycleThrows
  \/ consensusResponse
  \/ consensusTimeout
  \/ sendHealthReport_done
  \/ registerPeer
  \/ peerClosed
  \/ stop
  \/ teardownPeerNetwork

SpecCycle == InitCycle /\ [][NextCycle]_vars

\* an agent with P2P enabled, for every consensus threshold
InitResponder ==
  /\ CollectorInit
  /\ consensusThreshold = 1
  /\ AgentInit
  /\ p2pEnabled = TRUE
  /\ agentThreshold \in 1..MaxThreshold

\* ---- the probe (BeaconNodeMonitor) ---------------------------------------

\* checkBeaconNodeHealth: the answer that makes an attempt succeed
AnswerIsHealthy(answer) == answer = "200"

\* performHealthCheck up to the first GET of checkBeaconNodeHealth
performHealthCheck ==
  /\ probe.pc \in {"idle", "done"}
  /\ probe.count < MaxProbes
  /\ probe' = [NoProbe EXCEPT !.pc = "health", !.attempt = 1,
                              !.count = probe.count + 1]

\* the GET of an attempt ends: the block height is fetched, the next
\* attempt starts at once or after the delay, or all attempts have failed
\* and performHealthCheck returns UNHEALTHY
healthAnswered ==
  /\ probe.pc = "health"
  /\ \E answer \in Answers :
       LET heard == [probe EXCEPT !.answers = Append(@, answer)] IN
       probe' =
         IF answer # "error" /\ AnswerIsHealthy(answer)
         THEN [heard EXCEPT !.pc = "block"]
         ELSE IF probe.attempt >= healthCheckRetries
         THEN [heard EXCEPT !.pc = "done", !.status = "UNHEALTHY"]
         ELSE IF answer = "error"
         THEN [heard EXCEPT !.pc = "delay"]
         ELSE [heard EXCEPT !.attempt = @ + 1]

\* the 1 s delay after an attempt that threw has passed
delayElapsed ==
  /\ probe.pc = "delay"
  /\ probe' = [probe EXCEPT !.pc = "health", !.attempt = @ + 1]

\* the GET of the head block ends, with a slot or with a throw that is
\* caught; performHealthCheck returns HEALTHY
blockAnswered ==
  /\ probe.pc = "block"
  /\ \E fetched \in BOOLEAN :
       probe' = [probe EXCEPT !.pc = "done", !.status = "HEALTHY",
                             !.blockHeight = IF fetched THEN "slot" ELSE "undefined"]

\* what a step of the probe leaves alone
ProbeFrame ==
  /\ UNCHANGED <<p2pEnabled, agentThreshold, started, isRunning,
                 monitoringInProgress, monitoringInterval, firstCycle,
                 lastHealthCheck, lastReportedStatus, peerNetwork, stopping,
                 peers, cyclePc, healthResult, responses, cycles, posts, cyc,
                 pendingRequests, lastResponse, transportVars>>
  /\ UNCHANGED <<collectorVars, observerVars>>

NextProbe ==
  \/ performHealthCheck /\ ProbeFrame
  \/ healthAnswered /\ ProbeFrame
  \/ delayElapsed /\ ProbeFrame
  \/ blockAnswered /\ ProbeFrame

SpecProbe == InitAgent /\ [][NextProbe]_vars

\* ---- the peer transport (PeerNetwork) ------------------------------------

\* a connection with peer p opens (the server's "connection" event or the
\* client's "open" event): setupSocket and sendHello run here, and the peer,
\* running the same code, sends its peer_hello messages
connectionOpen(s) ==
  /\ peerNetwork /\ ~stopping
  /\ sockets[s].readyState = "CONNECTING"
  /\ \E p \in Peers :
       sockets' = [sockets EXCEPT ![s] = [@ EXCEPT !.readyState = "OPEN",
                                                   !.remote = p,
                                                   !.inbox = helloCount]]
  /\ UNCHANGED <<peerSockets, peers>>

\* setupSocket's message handler receives a peer_hello: the socket learns
\* its peerId and registerPeer runs
onPeerHello(s) ==
  /\ sockets[s].readyState = "OPEN"
  /\ sockets[s].inbox > 0
  /\ LET p == sockets[s].remote
         old == peerSockets[p]
         heardNow == [sockets EXCEPT ![s] = [@ EXCEPT !.inbox = @ - 1,
                                                      !.heard = @ + 1,
                                                      !.peerId = p]]
     IN /\ sockets' = IF old # 0
                       THEN [heardNow EXCEPT ![old] = Terminate(@)]
                       ELSE heardNow
        /\ peerSockets' = [peerSockets EXCEPT ![p] = s]
        /\ peers' = peers \cup {p}

\* the close event of a socket: the handler deletes the map entry of the
\* socket's peerId
onClose(s) ==
  /\ sockets[s].readyState = "CLOSING"
  /\ sockets' = [sockets EXCEPT ![s] = [@ EXCEPT !.readyState = "CLOSED",
                                                 !.inbox = 0]]
  /\ IF sockets[s].peerId # ""
     THEN /\ peerSockets' = [peerSockets EXCEPT ![sockets[s].peerId] = 0]
          /\ peers' = peers \ {sockets[s].peerId}
     ELSE UNCHANGED <<peerSockets, peers>>

\* the transport closes an open connection
transportClose(s) ==
  /\ sockets[s].readyState = "OPEN"
  /\ sockets' = [sockets EXCEPT ![s] = [@ EXCEPT !.readyState = "CLOSING",
                                                 !.cut = TRUE]]
  /\ UNCHANGED <<peerSockets, peers>>

\* what a step of the transport leaves alone
TransportFrame ==
  /\ UNCHANGED <<p2pEnabled, agentThreshold, started, isRunning,
                 monitoringInProgress, monitoringInterval, firstCycle,
                 lastHealthCheck, lastReportedStatus, peerNetwork, stopping,
                 cyclePc, healthResult, responses, cycles, posts, cyc,
                 pendingRequests, lastResponse, probeVars>>
  /\ UNCHANGED <<collectorVars, observerVars>>

NextTransport ==
  \/ start
  \/ stop
  \/ teardownPeerNetwork
  \/ \E s \in Sock : connectionOpen(s) /\ TransportFrame
  \/ \E s \in Sock : onPeerHello(s) /\ TransportFrame
  \/ \E s \in Sock : onClose(s) /\ TransportFrame
  \/ \E s \in Sock : transportClose(s) /\ TransportFrame

SpecTransport == InitResponder /\ [][NextTransport]_vars

\* the agent that also answers the consensus requests of its peers; the
\* consensus timer of requestConsensus always fires
NextResponder ==
  \/ start
  \/ performMonitoringCycle
  \/ handleHealthResult
  \/ consensusResponse
  \/ consensusTimeout
  \/ sendHealthReport_done
  \/ registerPeer
  \/ peerClosed
  \/ stop
  \/ teardownPeerNetwork
  \/ handleIncomingConsensusRequest
  \/ manualHealthCheck_done

SpecResponder ==
  InitResponder /\ [][NextResponder]_vars /\ WF_vars(consensusTimeout)

\* ---- properties of the collector (Spec) ---------------------------------

\* no handler is suspended and storage has applied every write
Quiescent == InFlight = {} /\ pendingFail = {}

\* the agents whose reports the aggregator put into ConsensusData w
WindowAgents(w) == {body[r].agentId : r \in {q \in Req : joined[q] = w}}

AlertsOf(v) == {a \in alerts : a.validatorId = v}

UnhealthyAgents(v) ==
  {body[r].agentId :
     r \in {q \in Req : body[q].status = "UNHEALTHY" /\ body[q].validatorId = v}}

\* C1: an alert exists only for a consensus window into which at least
\* `threshold` distinct agents have reported UNHEALTHY; with a threshold of 2
\* or more, a validator whose UNHEALTHY reports all come from one agent has
\* no alert.
C1_AlertNeedsQuorum ==
  /\ \A a \in alerts : Cardinality(WindowAgents(a.win)) >= consensusThreshold
  /\ \A v \in Validators :
       consensusThreshold >= 2 /\ Cardinality(UnhealthyAgents(v)) <= 1
         => AlertsOf(v) = {}

\* one agent reported twice into one window under a threshold of 2, and an
\* alert exists for a window two agents reported into
C1_Witness ==
  /\ consensusThreshold = 2
  /\ \/ \E a \in alerts : Cardinality(WindowAgents(a.win)) = 2
     \/ /\ joined[1] # 0 /\ joined[1] = joined[2]
        /\ body[1].agentId = body[2].agentId
        /\ pc[2] = "done"

\* the handlers that have set the latch of w and not yet created its alert
AlertPending(w) ==
  {r \in Req : pc[r] \in {"findValidator", "createAlert"} /\ loc[r].win = w}

\* C2: in every interleaving a consensus window has at most one alert, and
\* a window whose latch is set has exactly one alert, created or about to be
\* created by the one handler that set the latch.
C2_QuorumOnce ==
  \A w \in Req :
    LET n == Cardinality({a \in alerts : a.win = w}) IN
    /\ n <= 1
    /\ windows[w].consensusReached => n + Cardinality(AlertPending(w)) = 1
    /\ ~windows[w].consensusReached => n = 0 /\ AlertPending(w) = {}

\* a second UNHEALTHY report joined a window whose quorum was already
\* reached, while the first handler was still in flight
C2_Witness ==
  \E a \in alerts :
    /\ Cardinality({r \in Req : joined[r] = a.win}) = 2
    /\ \E r \in Req : r # a.id /\ a.id \in startedWith[r] /\ pc[r] = "done"

\* the ConsensusData w has terminated
Terminated(w) ==
  winEnd[w] \in {"cancelled", "aged"} \/ windows[w].consensusReached

\* C3: once a window has terminated and all processing has ended, every
\* persisted report that was accepted into it is CONSENSUS_REACHED or
\* CONSENSUS_FAILED.
C3_TerminatedReportsFinal ==
  Quiescent =>
    \A r \in Req :
      joined[r] # 0 /\ Terminated(joined[r])
        => reports[r].status \in {"CONSENSUS_REACHED", "CONSENSUS_FAILED"}

\* C4: at most one ConsensusData per validator is live, it is the one
\* activeConsensus holds, and every report put into a live ConsensusData has
\* an entry of its agent there.
C4_OneWindowPerValidator ==
  /\ \A v \in Validators :
       LET live == {w \in Req : winEnd[w] = "open" /\ windows[w].validatorId = v} IN
       /\ Cardinality(live) <= 1
       /\ \A w \in live : activeConsensus[v] = w
  /\ \A r \in Req :
       joined[r] # 0 /\ winEnd[joined[r]] = "open"
         => \E i \in 1..Len(windows[joined[r]].reports) :
              windows[joined[r]].reports[i].agentId = body[r].agentId

\* two first reports of different agents for one validator were handled
\* concurrently and are both in the one window
C4_Witness ==
  /\ 1 \in startedWith[2]
  /\ joined[1] # 0 /\ joined[1] = joined[2]
  /\ body[1].agentId # body[2].agentId
  /\ winEnd[joined[1]] = "open"
  /\ Len(windows[joined[1]].reports) = 2

\* C5: a window has at most one entry per agent, and the entry is the
\* newest report that agent put into the window.
C5_NewestWins ==
  \A w \in Req :
    LET reps == windows[w].reports IN
    /\ \A i, j \in 1..Len(reps) : reps[i].agentId = reps[j].agentId => i = j
    /\ \A i \in 1..Len(reps) : \A r \in Req :
         joined[r] = w /\ body[r].agentId = reps[i].agentId
           => reports[r].createdAt <= reports[reps[i].id].createdAt

HealthySent(v) ==
  \E m \in broadcasts :
    m.type = "validator_update" /\ m.status = "healthy" /\ m.validatorId = v /\ m.flag

\* C6: after a HEALTHY report cancelled a window and all processing has
\* ended, the window is gone, every report that was put into it is
\* CONSENSUS_FAILED and the healthy update with consensusCancelled was sent.
C6_CancelledByHealthy ==
  Quiescent =>
    \A w \in Req :
      winEnd[w] = "cancelled"
        => /\ activeConsensus[windows[w].validatorId] # w
           /\ HealthySent(windows[w].validatorId)
           /\ \A r \in Req :
                joined[r] = w => reports[r].status = "CONSENSUS_FAILED"

\* C7: as long as no HEALTHY report arrives for a validator, it gets at
\* most one alert and one alert broadcast, however many UNHEALTHY reports
\* follow the quorum.
C7_OneAlertWhileUnhealthy ==
  \A v \in Validators :
    (\A r \in Req : ~(body[r].validatorId = v /\ body[r].status = "HEALTHY"))
      => /\ Cardinality(AlertsOf(v)) <= 1
         /\ Cardinality({m \in broadcasts : m.type = "alert" /\ m.validatorId = v}) <= 1

\* scenario S5: the two requests are one UNHEALTHY report of a1 and one
\* HEALTHY report of a2 for v1, handled concurrently, both answered, no
\* other request received, the threshold is at least 2 and no window has
\* aged out
S5(u, h) ==
  /\ consensusThreshold >= 2
  /\ body[u] = [agentId |-> "a1", agentApiKey |-> "key", validatorId |-> "v1",
                status |-> "UNHEALTHY"]
  /\ body[h] = [agentId |-> "a2", agentApiKey |-> "key", validatorId |-> "v1",
                status |-> "HEALTHY"]
  /\ u \in startedWith[h] \/ h \in startedWith[u]
  /\ pc[u] = "done" /\ pc[h] = "done"
  /\ \A r \in Req \ {u, h} : pc[r] = "idle"
  /\ \A w \in Req : winEnd[w] # "aged"

\* C8 (as stated): in every interleaving of S5 no window is open, a1's
\* report is CONSENSUS_FAILED and there is no alert.
C8_AlwaysCancelled ==
  \A u, h \in Req :
    S5(u, h) => /\ activeConsensus["v1"] = 0
                /\ reports[u].status = "CONSENSUS_FAILED"
                /\ alerts = {}

\* C8 (amended): in every interleaving of S5 there is no alert; if the
\* HEALTHY report found the window (the healthy update was sent), no window
\* is open and a1's report is CONSENSUS_FAILED; otherwise the window a1's
\* report opened is still open and the report is UNHEALTHY.
C8_CancelledIfHealthyLast ==
  \A u, h \in Req :
    S5(u, h) =>
      /\ alerts = {}
      /\ HealthySent("v1")
           => activeConsensus["v1"] = 0 /\ reports[u].status = "CONSENSUS_FAILED"
      /\ ~HealthySent("v1")
           => activeConsensus["v1"] = u /\ reports[u].status = "UNHEALTHY"

\* S5 ended with the window cancelled
C8_Witness ==
  \E u, h \in Req : S5(u, h) /\ HealthySent("v1") /\ u \in startedWith[h]

\* time passes while requests are being handled
TickBusy ==
  /\ now < MaxTime
  /\ lastSweep = now
  /\ InFlight # {}
  /\ now' = now + 1
  /\ UNCHANGED <<lastSweep, consensusThreshold, pc, body, loc, resp, reports,
                 lastSeen, alerts, windows, activeConsensus, pendingFail,
                 broadcasts, joined, applied, winEnd, startedWith, deliveries>>
  /\ UNCHANGED <<agentVars, observerVars>>

\* the collector with a clock that also advances during the awaits
NextTimed ==
  \/ \E r \in Req : receiveReport(r)
  \/ \E r \in Req : checkAgent(r)
  \/ \E r \in Req : createReport(r)
  \/ \E r \in Req : updateLastSeen(r)
  \/ \E r \in Req : processReport(r)
  \/ \E r \in Req : cancelConsensus_done(r)
  \/ \E r \in Req : reachConsensus_validator(r)
  \/ \E r \in Req : reachConsensus_alert(r)
  \/ \E r \in Req : reachConsensus_update(r)
  \/ \E r \in Req : triggerWebhooks(r)
  \/ cleanupOldConsensus
  \/ cleanupOldConsensus_update
  \/ Tick
  \/ TickBusy

SpecTimed == Init /\ [][NextTimed]_vars

\* a storage call of POST /api/report rejects: the call has no effect, the
\* handler's catch answers 500
storageFails(r) ==
  /\ pc[r] \in {"findAgent", "createReport", "updateLastSeen"}
  /\ Respond(r, 500)
  /\ UNCHANGED <<now, lastSweep, consensusThreshold, body, reports, lastSeen,
                 alerts, windows, activeConsensus, pendingFail, broadcasts,
                 joined, applied, winEnd, startedWith, deliveries>>
  /\ UNCHANGED <<agentVars, observerVars>>

\* a storage call of reachConsensus rejects: the call has no effect, the
\* catch block of reachConsensus logs, addReportToConsensus sends its
\* consensus_update, processReport returns and the request is answered
reachConsensus_fails(r) ==
  /\ pc[r] \in {"findValidator", "createAlert", "reachUpdate"}
  /\ LET data == windows[loc[r].win] IN
       broadcasts' = broadcasts \cup
         {ConsensusUpdate(r, data.validatorId, Len(data.reports),
                          loc[r].unhealthy, data.threshold, data.consensusReached)}
  /\ Respond(r, 200)
  /\ UNCHANGED <<now, lastSweep, consensusThreshold, body, reports, lastSeen,
                 alerts, windows, activeConsensus, pendingFail, joined, applied, winEnd,
                 startedWith, deliveries>>
  /\ UNCHANGED <<agentVars, observerVars>>

\* the collector on a storage layer whose calls may fail
NextFault ==
  \/ \E r \in Req : receiveReport(r)
  \/ \E r \in Req : checkAgent(r)
  \/ \E r \in Req : createReport(r)
  \/ \E r \in Req : updateLastSeen(r)
  \/ \E r \in Req : processReport(r)
  \/ \E r \in Req : cancelConsensus_done(r)
  \/ \E r \in Req : reachConsensus_validator(r)
  \/ \E r \in Req : reachConsensus_alert(r)
  \/ \E r \in Req : reachConsensus_update(r)
  \/ \E r \in Req : triggerWebhooks(r)
  \/ \E r \in Req : storageFails(r)
  \/ \E r \in Req : reachConsensus_fails(r)
  \/ cleanupOldConsensus
  \/ cleanupOldConsensus_update
  \/ Tick

SpecFault == Init /\ [][NextFault]_vars

\* the collector during a burst of reports for one validator, within one
\* sweep period
NextBurst ==
  \/ \E r \in Req : receiveBurst(r)
  \/ \E r \in Req : checkAgent(r)
  \/ \E r \in Req : createReport(r)
  \/ \E r \in Req : updateLastSeen(r)
  \/ \E r \in Req : processReport(r)
  \/ \E r \in Req : cancelConsensus_done(r)
  \/ \E r \in Req : reachConsensus_validator(r)
  \/ \E r \in Req : reachConsensus_alert(r)
  \/ \E r \in Req : reachConsensus_update(r)
  \/ \E r \in Req : triggerWebhooks(r)

SpecBurst == Init /\ [][NextBurst]_vars

\* C16: the status of a report row that has become CONSENSUS_REACHED or
\* CONSENSUS_FAILED is never rewritten: an UNHEALTHY report is rewritten at
\* most once, and CONSENSUS_REACHED never becomes CONSENSUS_FAILED.
C16_StatusMonotonic ==
  [][\A r \in Req :
       reports[r].status \in {"CONSENSUS_REACHED", "CONSENSUS_FAILED"}
         => reports'[r].status = reports[r].status]_vars

\* C17 (as stated): once the handler of the report that triggered quorum has
\* ended, the window of that quorum is no longer in the aggregator.
C17_QuorumDestroysWindow ==
  \A a \in alerts :
    pc[a.id] = "done" => activeConsensus[a.validatorId] # a.win

\* C17 (amended): quorum does not remove the window: the ConsensusData of an
\* alert stays in the aggregator with its latch set until a HEALTHY report
\* or the aging sweep removes it.
C17_QuorumKeepsWindow ==
  \A a \in alerts :
    /\ windows[a.win].consensusReached
    /\ winEnd[a.win] \in {"open", "cancelled", "aged"}
    /\ winEnd[a.win] = "open" => activeConsensus[a.validatorId] = a.win

\* after the quorum handler had ended, a later UNHEALTHY report joined the
\* window of the alert, which is still the validator's window
C17_Witness ==
  \E a \in alerts : \E r \in Req :
    /\ pc[a.id] = "done" /\ pc[r] = "done"
    /\ a.id < r /\ a.id \notin startedWith[r]
    /\ joined[r] = a.win
    /\ activeConsensus[a.validatorId] = a.win

\* C18: a window without quorum does not survive a sweep that runs more
\* than 10 minutes after its earliest report (the report that opened it),
\* however often agents reported into it again.
C18_AgedByFirstSweep ==
  \A w \in Req :
    winEnd[w] = "open" /\ ~windows[w].consensusReached
      => lastSweep - reports[w].createdAt <= MaxAge

\* C19: whatever the interleaving of the sweep with the handlers, once all
\* processing has ended every report that was put into a window that aged
\* out is CONSENSUS_FAILED.
C19_AgedReportsFailed ==
  Quiescent =>
    \A r \in Req :
      joined[r] # 0 /\ winEnd[joined[r]] = "aged"
        => reports[r].status = "CONSENSUS_FAILED"

\* ---- properties of the ingress (SpecIngress) ----------------------------

\* the answer the interface promises for a body: the first failing check
\* decides
ExpectedCode(b) ==
  IF \E f \in {"agentId", "agentApiKey", "validatorId", "status"} : b[f] = ""
    THEN 400
  ELSE IF b.status \notin {"HEALTHY", "UNHEALTHY", "CONSENSUS_REACHED",
                           "CONSENSUS_FAILED"}
    THEN 400
  ELSE IF b.agentId \notin Agents THEN 401
  ELSE IF ~AgentTable[b.agentId].isActive THEN 401
  ELSE IF AgentTable[b.agentId].apiKey # b.agentApiKey THEN 401
  ELSE IF AgentTable[b.agentId].validator # b.validatorId THEN 403
  ELSE IF ~ValidatorTable[b.validatorId].isActive THEN 403
  ELSE 200

\* what a request can change outside its own handler
Effects == <<reports, lastSeen, alerts, windows, activeConsensus, pendingFail,
             broadcasts, joined, deliveries>>

\* C11: every step of the handler of a request that is to be rejected with
\* 400, 401 or 403 leaves the reports, lastSeen, the alerts, the consensus
\* windows and the broadcasts unchanged, and the handler never gets past the
\* agent lookup (the aggregator is not called).
C11_RejectedNoEffect ==
  [][\A r \in Req :
       pc'[r] # pc[r] /\ ExpectedCode(body'[r]) # 200
         => /\ UNCHANGED Effects
            /\ pc'[r] \in {"findAgent", "done"}
            /\ pc'[r] = "done" => resp'[r] \in {400, 401, 403}]_vars

\* a request was rejected with 403 while an accepted request of the same
\* agent was in flight, and the accepted one opened a window
C11_Witness ==
  \E r, q \in Req :
    /\ resp[r] = 403 /\ resp[q] = 200
    /\ r \in startedWith[q] \/ q \in startedWith[r]
    /\ body[r].agentId = body[q].agentId
    /\ joined[q] = q /\ joined[r] = 0 /\ reports[r] = NoRow

\* C12: a request is answered with the code of the first check that fails,
\* in the order 400 (field missing, status no ReportStatus), 401 (agent
\* unknown or inactive, key mismatch), 403 (validator mismatch, validator
\* inactive), and with 200 and the id of the persisted report otherwise.
C12_ResponseCodes ==
  \A r \in Req :
    pc[r] = "done"
      => /\ resp[r] = ExpectedCode(body[r])
         /\ resp[r] = 200 <=> reports[r] # NoRow

\* a wrong key together with another agent's validator was answered 401, and
\* a missing field together with an unknown agent 400
C12_Witness ==
  /\ \E r \in Req : /\ resp[r] = 401
                    /\ body[r].agentApiKey = "bad" /\ body[r].validatorId = "v2"
  /\ \E r \in Req : /\ resp[r] = 400
                    /\ body[r].agentId = "ax" /\ body[r].status = ""

\* ---- properties of lastSeen (SpecTimed) ---------------------------------

\* C13: lastSeen of an agent never decreases, and once a report of the agent
\* has been accepted lastSeen is at least the report's timestamp.
C13_LastSeenMonotonic ==
  /\ [](\A r \in Req :
          resp[r] = 200 => lastSeen[body[r].agentId] >= reports[r].createdAt)
  /\ [][\A a \in Agents : lastSeen'[a] >= lastSeen[a]]_vars

\* ---- properties under storage failures (SpecFault) ----------------------

\* C14: a persisted report whose handler has ended had its lastSeen update
\* and was handed to the aggregator (the handler answered 200), also after a
\* storage failure.
C14_PersistedMeansAccepted ==
  \A r \in Req :
    pc[r] = "done" /\ reports[r] # NoRow
      => /\ resp[r] = 200
         /\ lastSeen[body[r].agentId] >= reports[r].createdAt

\* C24: a window whose latch is set has its Alert, or a handler is still on
\* its way to create it; so a storage failure during the creation of the
\* Alert leaves no latched window without Alert, and no request whose report
\* set the latch of a window that has no Alert has been answered 200
C24_AlertFailurePropagates ==
  /\ \A w \in Req :
       windows[w].consensusReached
         => (\E a \in alerts : a.win = w) \/ AlertPending(w) # {}
  /\ \A r \in Req :
       ( /\ pc[r] = "done" /\ joined[r] # 0
         /\ windows[joined[r]].consensusReached
         /\ ~\E a \in alerts : a.win = joined[r]
         /\ AlertPending(joined[r]) = {} )
       => resp[r] # 200

\* ---- properties of the webhook dispatch (Spec) ---------------------------

\* C25: the step in which a webhook delivery ends, failed or not, leaves the
\* alerts and the report rows as they are, takes no broadcast back and
\* answers the request, if at all, with 200; and when the handler that
\* created an alert has ended, it was answered 200 and every matching active
\* webhook has had its delivery, whatever became of the others
C25_WebhookFailureIsolated ==
  /\ [][\A r \in Req :
         deliveries' # deliveries /\ pc[r] = "triggerWebhooks" /\ loc'[r] # loc[r]
           => /\ alerts' = alerts
              /\ reports' = reports
              /\ broadcasts \subseteq broadcasts'
              /\ resp'[r] \in {0, 200}]_vars
  /\ [](\A a \in alerts :
          pc[a.id] = "done"
            => /\ resp[a.id] = 200
               /\ \A i \in 1..Len(MatchingHooks("validator.unhealthy")) :
                    \E d \in deliveries :
                      d.by = a.id /\ d.hook = MatchingHooks("validator.unhealthy")[i])

\* the delivery to the first webhook failed, the one to the other succeeded,
\* and the request was answered 200 with its alert, its rewritten rows and
\* its broadcasts in place
C25_Witness ==
  \E a \in alerts :
    /\ pc[a.id] = "done" /\ resp[a.id] = 200
    /\ [by |-> a.id, hook |-> 1, ok |-> FALSE] \in deliveries
    /\ [by |-> a.id, hook |-> 3, ok |-> TRUE] \in deliveries
    /\ reports[a.id].status = "CONSENSUS_REACHED"
    /\ \E m \in broadcasts : m.by = a.id /\ m.type = "alert"

\* ---- properties of a burst (SpecBurst) ----------------------------------

\* C15: when every report for a validator that is not HEALTHY had been
\* answered before the first of its HEALTHY reports arrived, the HEALTHY
\* reports together cancel at most once and send at most one healthy update.
C15_RecoveryIdempotent ==
  \A v \in Validators :
    LET H == {r \in Req : body[r].validatorId = v /\ body[r].status = "HEALTHY"}
        U == {r \in Req : body[r].validatorId = v /\ body[r].status # "HEALTHY"}
    IN (\A u \in U, h \in H : u < h /\ u \notin startedWith[h])
         => Cardinality({m \in broadcasts :
                           /\ m.type = "validator_update" /\ m.status = "healthy"
                           /\ m.by \in H}) <= 1

\* ---- properties of the agent (SpecAgent) --------------------------------

C10_Suppression ==
  cyc.status = "HEALTHY" /\ cyc.prev = "HEALTHY" => cyc.sent = 0

\* the last cycle of the behaviour was suppressed
C10_Witness ==
  /\ cycles = MaxCycles /\ cyclePc = "none"
  /\ cyc.status = "HEALTHY" /\ cyc.prev = "HEALTHY" /\ cyc.sent = 0

\* C20: with a consensus threshold of 1 the P2P-enabled agent never waits
\* for peers: no cycle is suspended in requestConsensus with a
\* consensus_request broadcast.
C20_ThresholdOneSkipsPeers ==
  p2pEnabled /\ agentThreshold = 1 => cyclePc # "consensus"

\* ---- the reporter (SpecAgent) --------------------------------------------

\* C21: a report submission that failed was attempted maxRetries times in its
\* cycle before it was given up
C21_RetriedUntilMaxRetries ==
  cyc.outcome = "failed" => cyc.sent = maxRetries

\* the reporting condition of a cycle that has passed its consensus
ConditionHolds ==
  IF cyc.status = "HEALTHY" THEN cyc.prev # "HEALTHY"
  ELSE cyc.hasResult /\ ConsensusConfirmed(cyc.agreeCount, cyc.totalPeers, agentThreshold)

C26_AgreeCountIsLastVotes ==
  (cyc.hasResult /\ cyc.waited)
    => cyc.agreeCount = Cardinality({p \in Peers : cyc.last[p] = "yes"})

\* both peers answered during the wait, the last answer of one agreed and
\* the last answer of the other did not, and one agreement was returned
C26_Witness ==
  /\ cyc.hasResult /\ cyc.waited
  /\ \E p, q \in Peers : cyc.last[p] = "yes" /\ cyc.last[q] = "no"
  /\ cyc.agreeCount = 1

\* ---- requestConsensus and its responder (SpecResponder) ------------------

\* C27: a requestConsensus that found a registered peer broadcast the request
\* and returned only when the timeout had elapsed; one that found no peer
\* returned zero counts at once without a broadcast; and a wait always ends,
\* whatever consensus requests of peers the agent handles meanwhile
C27_ReturnsAtTimeout ==
  /\ [](cyc.hasResult =>
          IF cyc.peersAtCall > 0
          THEN cyc.broadcast /\ cyc.waited
          ELSE /\ ~cyc.broadcast /\ ~cyc.waited
               /\ cyc.agreeCount = 0 /\ cyc.totalPeers = 0
               /\ responses = << >>)
  /\ []((cyc.broadcast /\ ~cyc.waited) => cyclePc = "consensus" /\ ~cyc.hasResult)
  /\ ((cyclePc = "consensus") ~> (cyclePc # "consensus"))

\* every peer had answered, the agent answered a peer's request during its
\* own wait, and the wait went on until the timeout
C27_Witness ==
  /\ cyc.waited /\ cyc.hasResult
  /\ \A p \in Peers : cyc.last[p] # ""
  /\ lastResponse.inWait

\* C28: the last consensus_response sent answers a consensus_request for the
\* agent's own validator that carried a consensusId, echoes that consensusId
\* and the requester's agentId, and agrees exactly when the probe result the
\* agent had on receipt, or the fresh probe made because it had none, is
\* UNHEALTHY
C28_ResponseOnlyForOwnValidator ==
  lastResponse # NoResponse =>
    /\ lastResponse.request.validatorId = OwnValidator
    /\ lastResponse.request.consensusId # ""
    /\ lastResponse.validatorId = OwnValidator
    /\ lastResponse.consensusId = lastResponse.request.consensusId
    /\ lastResponse.requesterId = lastResponse.request.agentId
    /\ lastResponse.agree <=>
         (IF lastResponse.known # "" THEN lastResponse.known
          ELSE lastResponse.probed) = "UNHEALTHY"

\* the agent had no probe result, probed afresh and agreed
C28_Witness ==
  /\ lastResponse # NoResponse
  /\ lastResponse.known = "" /\ lastResponse.probed = "UNHEALTHY"
  /\ lastResponse.agree

\* ---- properties of the peer transport (SpecTransport) -------------------

\* the open sockets on which peer p has introduced itself
LiveSockets(p) ==
  {s \in Sock : sockets[s].readyState = "OPEN" /\ sockets[s].peerId = p}

\* C23: for every registered peerId at most one socket is live, and it is
\* the socket of the map entry: a registration on another socket has
\* terminated the older socket and put the newer one in the map
C23_OneLiveSocketPerPeer ==
  \A p \in Peers :
    peerSockets[p] # 0 => LiveSockets(p) \subseteq {peerSockets[p]}

\* C29: when a connection is the only one that has opened, the peer's
\* peer_hello messages have all been delivered on it, the transport has not
\* closed it and the agent has not stopped, the peer is registered with that
\* connection's socket and the socket is open
C29_RegisteredWhileConnected ==
  \A s \in Sock :
    ( /\ isRunning /\ peerNetwork
      /\ sockets[s].heard = helloCount
      /\ ~sockets[s].cut
      /\ \A t \in Sock \ {s} : sockets[t].readyState = "CONNECTING" )
    => /\ peerSockets[sockets[s].remote] = s
       /\ sockets[s].readyState = "OPEN"

\* ---- properties of the probe (SpecProbe) ---------------------------------

Is2xx(answer) == answer \in {"200", "206"}

\* C30: a finished probe made at most healthCheckRetries attempts, stopped at
\* the first attempt that got an HTTP 2xx answer, and is HEALTHY if and only
\* if an attempt got one, whatever became of the block-height fetch;
\* otherwise it is UNHEALTHY
C30_HealthyIff2xx ==
  probe.pc = "done" =>
    /\ Len(probe.answers) <= healthCheckRetries
    /\ \A i \in 1..(Len(probe.answers) - 1) : ~Is2xx(probe.answers[i])
    /\ probe.status \in {"HEALTHY", "UNHEALTHY"}
    /\ probe.status = "HEALTHY"
         <=> \E i \in 1..Len(probe.answers) : Is2xx(probe.answers[i])

\* ---- the close handler of a peer socket --------------------------------

\* C35: when the socket of a registered peer closes, the peer entry is
\* removed only if it refers to the closing socket: the close event of an
\* older, replaced socket leaves the map entry and the peer set as they are
C35_CloseRemovesOwnEntryOnly ==
  [][\A s \in Sock :
       ( /\ sockets[s].readyState = "CLOSING"
         /\ sockets'[s].readyState = "CLOSED"
         /\ sockets[s].peerId # ""
         /\ peerSockets[sockets[s].peerId] # s
         /\ peerSockets[sockets[s].peerId] # 0 )
       => /\ peerSockets'[sockets[s].peerId] = peerSockets[sockets[s].peerId]
          /\ sockets[s].peerId \in peers']_vars

\* ---- the consensus decision when peers leave ----------------------------

\* the peers whose vote at the timeout was agree
AgreeingPeers == {p \in Peers : cyc.last[p] = "yes"}

\* C36: when peers were registered at the broadcast of the consensus_request
\* and fewer than consensusThreshold - 1 distinct peers agreed within the
\* timeout, no UNHEALTHY report is submitted for that probe, also when peers
\* disconnect during the wait
C36_NoReportBelowThreshold ==
  ( /\ cyc.status = "UNHEALTHY"
    /\ cyc.peersAtCall > 0
    /\ cyc.waited
    /\ Cardinality(AgreeingPeers) < agentThreshold - 1 )
  => cyc.sent = 0

\* ---- stop() during a monitoring cycle -----------------------------------

\* C37: an agent started with P2P enabled submits an UNHEALTHY report only
\* after a requestConsensus call for that probe result has returned, also
\* when stop() runs during the cycle; and once stop() has returned no new
\* monitoring cycle starts
C37_ReportOnlyAfterConsensus ==
  /\ []((p2pEnabled /\ cyc.status = "UNHEALTHY" /\ cyc.sent = 1)
          => cyc.hasResult)
  /\ [][(started /\ ~isRunning /\ ~stopping) => cycles' = cycles]_vars

\* ---- one monitoring cycle at a time (SpecCycle) -------------------------

\* C38: at most one scheduled monitoring cycle is in flight: while a cycle
\* is running a timer tick starts no new cycle (no probe, no consensus
\* request, no report), and the in-progress flag is set exactly while a
\* cycle runs, so it is cleared when the cycle ends, with an exception too
C38_OneCycleInFlight ==
  /\ [](monitoringInProgress <=> cyclePc # "none")
  /\ [][cyclePc # "none"
          => /\ cycles' = cycles
             /\ (cyclePc' # cyclePc => cyclePc' \in {"consensus", "report", "none"})
             /\ posts' \in {posts, posts + 1}]_vars

\* the timer is armed and the agent runs while the second cycle waits for
\* its peers: a tick now finds the in-progress flag set
C38_Witness ==
  /\ cycles = 2 /\ cyclePc = "consensus" /\ monitoringInProgress
  /\ monitoringInterval /\ isRunning

\* ---- reports with an aggregator status (SpecIngress) --------------------

\* the statuses only the aggregator writes
AggregatorStatuses == {"CONSENSUS_REACHED", "CONSENSUS_FAILED"}

\* C39: an accepted report whose status is CONSENSUS_REACHED or
\* CONSENSUS_FAILED is persisted with that status and writes lastSeen, but
\* no step of its handler opens, changes or cancels a consensus window,
\* creates an alert, or emits a broadcast or a webhook
C39_AggregatorStatusOnlyStored ==
  /\ [](\A r \in Req :
          (pc[r] = "done" /\ resp[r] = 200 /\ body[r].status \in AggregatorStatuses)
          => /\ reports[r] # NoRow
             /\ reports[r].status = body[r].status
             /\ joined[r] = 0)
  /\ [][\A r \in Req :
          (pc'[r] # pc[r] /\ body'[r].status \in AggregatorStatuses)
          => /\ UNCHANGED <<windows, activeConsensus, winEnd, alerts, broadcasts,
                            deliveries>>
             /\ (pc[r] \in {"updateLastSeen", "processReport"}
                 => lastSeen'[body[r].agentId] = loc[r].seen)]_vars

\* a CONSENSUS_FAILED report of agent a1 was accepted while the window its
\* UNHEALTHY report opened for v1 is active with that one report
C39_Witness ==
  \E r \in Req :
    /\ pc[r] = "done" /\ resp[r] = 200
    /\ body[r].status = "CONSENSUS_FAILED" /\ body[r].agentId = "a1"
    /\ reports[r].status = "CONSENSUS_FAILED"
    /\ activeConsensus["v1"] # 0
    /\ activeConsensus["v1"] # r
    /\ Len(windows[activeConsensus["v1"]].reports) = 1
    /\ windows[activeConsensus["v1"]].reports[1].status = "UNHEALTHY"

\* ---- validators are processed apart (Spec) ------------------------------

\* what the aggregator and the storage hold for validator v
StateOf(v) ==
  [active |-> activeConsensus[v],
   data |-> [w \in {x \in Req : windows[x].validatorId = v} |-> windows[w]],
   rows |-> [r \in {x \in Req : reports[x].validatorId = v} |-> reports[r]],
   alerts |-> {a \in alerts : a.validatorId = v}]

\* C33: a step of the handler of a report for validator v leaves the
\* consensus window, the report rows and the alerts of every other
\* validator unchanged
C33_OtherValidatorsUntouched ==
  [][\A r \in Req :
       pc'[r] # pc[r]
       => \A v \in Validators :
            v # body'[r].validatorId => StateOf(v)' = StateOf(v)]_vars

\* the report for v1 reached its quorum and was answered while the handler
\* of the report for v2 is suspended inside reachConsensus
C33_Witness ==
  \E r \in Req, q \in Req :
    /\ body[r].validatorId = "v1" /\ pc[r] = "done"
    /\ reports[r].status = "CONSENSUS_REACHED"
    /\ \E a \in alerts : a.validatorId = "v1"
    /\ body[q].validatorId = "v2" /\ pc[q] = "findValidator"
    /\ reports[q].status = "UNHEALTHY"
    /\ activeConsensus["v2"] = q

\* ---- the consensus_update of an UNHEALTHY report (Spec) -----------------

\* the consensus_update broadcasts the handler of request r has sent
UpdatesBy(r) == {m \in broadcasts : m.type = "consensus_update" /\ m.by = r}

\* C34: every accepted UNHEALTHY report has emitted exactly one
\* consensus_update, and its totalReports, unhealthyReports, threshold and
\* consensusReached are the values the window had once that report was
\* applied to it
C34_UpdateCarriesWindowValues ==
  \A r \in Req :
    (pc[r] = "done" /\ resp[r] = 200 /\ body[r].status = "UNHEALTHY")
    => /\ Cardinality(UpdatesBy(r)) = 1
       /\ \A m \in UpdatesBy(r) :
            /\ m.totalReports = applied[r].totalReports
            /\ m.unhealthyReports = applied[r].unhealthyReports
            /\ m.threshold = applied[r].threshold
            /\ m.flag = applied[r].consensusReached

\* ---- overlapping reports for one validator (Spec) -----------------------

\* the aggregator and storage before any report
NothingProcessed ==
  [active |-> 0, data |-> NoWin, rows |-> [r \in Req |-> NoRow], alerts |-> {},
   sent |-> {}]

\* POST /api/report for the accepted body of request r, run from the row's
\* creation to the answer with no other handler in between, in period 0
Processed(st, r) ==
  LET b == body[r]
      v == b.validatorId
      row == [agentId |-> b.agentId, validatorId |-> v, status |-> b.status,
              consensus |-> FALSE, createdAt |-> 0]
      rows == [st.rows EXCEPT ![r] = row]
      e == [id |-> r, agentId |-> b.agentId, status |-> b.status, createdAt |-> 0]
      w == IF st.active # 0 THEN st.active ELSE r
      data == IF st.active # 0 THEN st.data
              ELSE [validatorId |-> v, reports |-> <<e>>,
                    consensusReached |-> FALSE, threshold |-> consensusThreshold]
      reps == UpsertReport(data.reports, e)
      unhealthy == UnhealthyCount(reps)
  IN IF OpensConsensus(b.status)
     THEN IF QuorumCrossed(unhealthy, data.threshold, data.consensusReached)
          THEN [active |-> w,
                data |-> [data EXCEPT !.reports = reps, !.consensusReached = TRUE],
                rows |-> UpdateMany(rows, ReportIds(reps), "CONSENSUS_REACHED", TRUE),
                alerts |-> st.alerts \cup
                  {[id |-> r, validatorId |-> v, status |-> "PENDING", win |-> w]},
                sent |-> st.sent \cup
                  {ValidatorUpdate(r, v, "unhealthy", Len(reps), TRUE),
                   AlertNotification(r, v),
                   ConsensusUpdate(r, v, Len(reps), unhealthy, data.threshold, TRUE)}]
          ELSE [active |-> w,
                data |-> [data EXCEPT !.reports = reps],
                rows |-> rows,
                alerts |-> st.alerts,
                sent |-> st.sent \cup
                  {ConsensusUpdate(r, v, Len(reps), unhealthy, data.threshold,
                                   data.consensusReached)}]
     ELSE IF b.status = "HEALTHY" /\ st.active # 0
     THEN [active |-> 0,
           data |-> NoWin,
           rows |-> UpdateMany(rows, ReportIds(st.data.reports), "CONSENSUS_FAILED", FALSE),
           alerts |-> st.alerts,
           sent |-> st.sent \cup {ValidatorUpdate(r, v, "healthy", 0, TRUE)}]
     ELSE [st EXCEPT !.rows = rows]

\* what the aggregator and storage hold now, for validator v
Outcome(v) ==
  [active |-> activeConsensus[v],
   data |-> IF activeConsensus[v] # 0 THEN windows[activeConsensus[v]] ELSE NoWin,
   rows |-> reports, alerts |-> alerts, sent |-> broadcasts]

\* requests 1 and 2, for the same validator, were handled at overlapping
\* times in period 0 and both are answered; nothing else has happened
TwoOverlapped ==
  /\ now = 0
  /\ pc[1] = "done" /\ pc[2] = "done"
  /\ \A r \in Req \ {1, 2} : pc[r] = "idle"
  /\ body[1].validatorId = body[2].validatorId
  /\ 1 \in startedWith[2]

\* C32: the reports for one validator are processed one at a time: when the
\* handling of two reports for the same validator overlapped, the window,
\* the report statuses, the alerts and the broadcasts are those of handling
\* the two reports one after the other, in one of the two orders
C32_SerializedPerValidator ==
  TwoOverlapped
  => Outcome(body[1].validatorId) \in
       {Processed(Processed(NothingProcessed, 1), 2),
        Processed(Processed(NothingProcessed, 2), 1)}

\* ---- the observer sessions (WebSocketService) ---------------------------

\* the "connection" event: the connection gets a fresh client id and is put
\* into the map
wsConnection(s) ==
  /\ wsState[s] = "NONE"
  /\ \A t \in 1..(s - 1) : wsState[t] # "NONE"
  /\ wsState' = [wsState EXCEPT ![s] = "OPEN"]
  /\ clients' = clients \cup {s}
  /\ UNCHANGED <<wsEvent, received, messages>>

\* a closing handshake begins on an open connection; no handler runs
wsClosing(s) ==
  /\ wsState[s] = "OPEN"
  /\ wsState' = [wsState EXCEPT ![s] = "CLOSING"]
  /\ UNCHANGED <<clients, wsEvent, received, messages>>

\* the "close" event of a connection: the handler deletes its client id
wsClose(s) ==
  /\ wsState[s] \in {"OPEN", "CLOSING"}
  /\ wsState' = [wsState EXCEPT ![s] = "CLOSED"]
  /\ wsEvent' = [wsEvent EXCEPT ![s] = "close"]
  /\ clients' = clients \ {s}
  /\ UNCHANGED <<received, messages>>

\* the "error" event of a connection, which the socket emits once it has
\* left OPEN: the handler deletes its client id
wsError(s) ==
  /\ wsState[s] \in {"OPEN", "CLOSING"}
  /\ wsEvent[s] = ""
  /\ wsState' = [wsState EXCEPT ![s] = "CLOSING"]
  /\ wsEvent' = [wsEvent EXCEPT ![s] = "error"]
  /\ clients' = clients \ {s}
  /\ UNCHANGED <<received, messages>>

IsOpen_NotClosed(state) == state # "CLOSED"

\* broadcast: ws.readyState === WebSocket.OPEN
IsOpen(state) == state = "OPEN"

\* broadcast: the message is sent on the open connections of the map, the
\* other entries are deleted
broadcast ==
  /\ messages < MaxMessages
  /\ messages' = messages + 1
  /\ received' = [s \in Session |->
                    IF s \in clients /\ IsOpen(wsState[s])
                    THEN received[s] \cup {messages + 1}
                    ELSE received[s]]
  /\ clients' = {s \in clients : IsOpen(wsState[s])}
  /\ UNCHANGED <<wsState, wsEvent>>

\* what a step of the WebSocketService leaves alone
ObserverFrame == UNCHANGED <<collectorVars, agentVars>>

NextObservers ==
  \/ \E s \in Session : wsConnection(s) /\ ObserverFrame
  \/ \E s \in Session : wsClosing(s) /\ ObserverFrame
  \/ \E s \in Session : wsClose(s) /\ ObserverFrame
  \/ \E s \in Session : wsError(s) /\ ObserverFrame
  \/ broadcast /\ ObserverFrame

SpecObservers == Init /\ [][NextObservers]_vars

\* C31: a broadcast is sent on exactly the connections that are open at
\* that moment; an entry found not open is removed from the map and gets
\* nothing; after its close or error event a connection is not in the map
C31_BroadcastToOpenSessions ==
  /\ [](\A s \in Session : wsEvent[s] # "" => s \notin clients)
  /\ [][messages' # messages
          => /\ \A s \in Session :
                  (messages' \in received'[s]) <=> wsState[s] = "OPEN"
             /\ clients' = {s \in clients : wsState[s] = "OPEN"}]_vars

\* the last broadcast reached the connection that is still open, dropped
\* the entry of a connection that was closing and had got the first
\* broadcast, and a third connection had emitted its close event
C31_Witness ==
  /\ messages = MaxMessages
  /\ \E s \in Session, t \in Session, u \in Session :
       /\ wsState[s] = "OPEN" /\ received[s] = 1..MaxMessages /\ s \in clients
       /\ wsState[t] = "CLOSING" /\ wsEvent[t] = "" /\ received[t] = {1}
       /\ t \notin clients
       /\ wsEvent[u] = "close" /\ u \notin clients
====
